---- MODULE Spec2Model ----
(***************************************************************************)
(* Model of the nooshdaroo DPI probing tools:                              *)
(*   dns_test_server.py        TCP echo server, TCP and UDP DNS responders *)
(*   multiport_analyzer.py     listener fleet, connection log, statistics  *)
(*   protocol_tester_client.py packet builders, probe runner, analysis     *)
(* Byte strings are sequences of numbers 0..255.  These specifications      *)
(* share the module: Spec (the DNS responders of dns_test_server.py),      *)
(* SpecListeners (the concurrent echo listeners and the connection log),   *)
(* SpecClient (the probe sequence and its analysis), SpecFleet (the start  *)
(* of the listener threads), SpecLoops (the listener loops and their       *)
(* errors) and SpecLog (the users of the log lock and the export); the     *)
(* specifications named ...Live add the fairness conditions.               *)
(***************************************************************************)
EXTENDS Integers, Sequences, FiniteSets, TLC

VARIABLES
    \* ---- dns_test_server.py, DNS responders (Spec) ----
    client,        \* what the TCP peer built and put on the wire
    inflight,      \* bytes of the peer still on their way to the server
    rbuf,          \* bytes arrived in the connection's receive buffer
    query,         \* handle_dns_tcp: query
    out,           \* bytes the peer got back on the TCP connection
    udp_data,      \* dns_udp_server: data
    udp_out,       \* datagram sent back by dns_udp_server
    udp_client,    \* what the UDP peer built
    udp_result,    \* "none" | "responded" | "error"
    segs,          \* number of TCP segments delivered so far
    fin,           \* the peer has closed its side of the connection
    length_data,   \* handle_dns_tcp: length_data
    query_length,  \* handle_dns_tcp: query_length
    result,        \* "none" | "invalid_prefix" | "responded" | "error:<exception>"
    conn_closed,   \* conn.close() was called
    pc,            \* position of handle_dns_tcp
    \* ---- multiport_analyzer.py and tcp_echo_server (SpecListeners) ----
    connection_log, \* the global list connection_log
    lock,           \* holder of the global lock: 0 when free
    conns,          \* accepted TCP connections, in accept order
    st,             \* the dump_stats thread and its locals
    \* ---- protocol_tester_client.py (SpecClient) ----
    tests,          \* run_tests: the list tests
    diag,           \* lines printed by the analysis
    failure,        \* the way probes fail on this network path
    calls,          \* what the socket calls of each probe run so far did
    cpc,            \* position of run_tests
    \* ---- multiport_analyzer.py, __main__ and the listener threads (SpecFleet) ----
    fleet,          \* the listener threads started so far, in the order of `ports`
    main_pc,        \* position of __main__
    \* ---- the listener loops of both servers (SpecLoops) ----
    loops,          \* the listener threads and the locals of their loops
    \* ---- multiport_analyzer.py, the users of the log lock (SpecLog) ----
    handlers,       \* handle_tcp threads, with their log_connection calls in steps
    exp             \* the shutdown export of __main__ and the file it writes

dnsVars == <<client, inflight, rbuf, query, out, udp_data, udp_out, udp_client,
             udp_result, segs, fin, length_data, query_length, result,
             conn_closed, pc>>

lsnVars == <<connection_log, lock, conns, st>>

cliVars == <<tests, diag, failure, calls, cpc>>

fleetVars == <<fleet, main_pc>>

loopVars == <<loops>>

logVars == <<handlers, exp>>

vars == <<dnsVars, lsnVars, cliVars, fleetVars, loopVars, logVars>>

\* the dump_stats thread between two rounds
StatsAsleep == [pc |-> "sleep", i |-> 0, total |-> 0, stats |-> <<>>]

\* the parts of the state a specification does not use stay as they are here
LsnOff == connection_log = <<>> /\ lock = 0 /\ conns = <<>> /\ st = StatsAsleep

CliOff ==
    tests = <<>> /\ diag = <<>> /\ failure = "none" /\ calls = <<>> /\ cpc = "off"

FleetOff == fleet = <<>> /\ main_pc = "off"

LoopsOff == loops = <<>>

\* __main__ asleep in its loop, no file written
NoExport == [pc |-> "sleep", file |-> <<>>]

LogOff == handlers = <<>> /\ exp = NoExport

(***************************************************************************)
(* Byte strings.                                                           *)
(***************************************************************************)
Min(a, b) == IF a < b THEN a ELSE b

\* Python s[:n]
Take(s, n) == SubSeq(s, 1, Min(n, Len(s)))

\* Python s[n:]
Drop(s, n) == IF n >= Len(s) THEN <<>> ELSE SubSeq(s, n + 1, Len(s))

Zeros(n) == [i \in 1..n |-> 0]

\* largest value of struct format 'H'
MaxU16 == 65535

\* struct.pack('!H', n) raises struct.error outside 0..65535
PackRaises(n) == n < 0 \/ n > MaxU16

\* mutant of Pack16: little-endian ('<H')
Pack16LittleEndian(n) == <<n % 256, n \div 256>>

\* struct.pack('!H', n)
Pack16(n) == <<n \div 256, n % 256>>

\* struct.unpack('!H', b)[0]
Unpack16(b) == b[1] * 256 + b[2]

(***************************************************************************)
(* make_dns_query (protocol_tester_client.py).  A domain is a sequence of  *)
(* code points; 46 is the dot.                                             *)
(***************************************************************************)
Dot == 46

RECURSIVE Split(_)
\* domain.split('.')
Split(s) ==
    IF \A i \in 1..Len(s) : s[i] # Dot
    THEN <<s>>
    ELSE LET i == CHOOSE j \in 1..Len(s) :
                      s[j] = Dot /\ \A k \in 1..(j - 1) : s[k] # Dot
         IN  <<Take(s, i - 1)>> \o Split(Drop(s, i))

RECURSIVE Utf8(_)
\* label.encode(): UTF-8 of code points below 2048
Utf8(s) ==
    IF s = <<>> THEN <<>>
    ELSE (IF s[1] < 128 THEN <<s[1]>>
          ELSE <<192 + (s[1] \div 64), 128 + (s[1] % 64)>>) \o Utf8(Tail(s))

RECURSIVE QName(_)
\* the loop over labels: bytes([len(label)]) + label.encode()
QName(labels) ==
    IF labels = <<>> THEN <<>>
    ELSE <<Len(labels[1])>> \o Utf8(labels[1]) \o QName(Tail(labels))

\* bytes([n]) raises ValueError when n > 255
MakeDnsQueryRaises(domain) ==
    \E i \in 1..Len(Split(domain)) : Len(Split(domain)[i]) > 255

MakeDnsQuery(domain, tid) ==
    tid \o <<1, 0>> \o <<0, 1>> \o <<0, 0>> \o <<0, 0>> \o <<0, 0>>
        \o QName(Split(domain)) \o <<0>> \o <<0, 1>> \o <<0, 1>>

(***************************************************************************)
(* The response both DNS responders synthesize (dns_test_server.py).       *)
(***************************************************************************)
Answer == <<192, 12, 0, 1, 0, 1, 0, 0, 1, 44, 0, 4, 172, 217, 14, 206>>

\* mutant of DnsResponse: a fixed transaction id instead of the query's
DnsResponseFixedId(q) ==
    <<0, 0>> \o <<129, 128>> \o <<0, 1>> \o <<0, 1>> \o <<0, 0>> \o <<0, 0>>
        \o Drop(q, 12) \o Answer

DnsResponse(q) ==
    Take(q, 2) \o <<129, 128>> \o <<0, 1>> \o <<0, 1>> \o <<0, 0>> \o <<0, 0>>
        \o Drop(q, 12) \o Answer

(***************************************************************************)
(* Inputs of the DNS responders.                                           *)
(***************************************************************************)
\* longest domain enumerated exhaustively
MaxDomainLen == 3

\* most TCP segments one request is split into
MaxSegments == 3

\* '.', 'a' and a two-byte code point
DomainChars == {Dot, 97, 233}

GoogleCom == <<103, 111, 111, 103, 108, 101, 46, 99, 111, 109>>

Domains == UNION {[1..k -> DomainChars] : k \in 0..MaxDomainLen} \cup {GoogleCom}

\* values of os.urandom(2)
Tids == {<<170, 187>>, <<0, 1>>}

\* the query test_real_dns_query sends
GoogleQuery == MakeDnsQuery(GoogleCom, <<170, 187>>)

\* payloads that no query builder produced
RawPayloads ==
    {<<>>, <<7>>, <<222, 173, 1, 0, 0>>, Take(GoogleQuery, 11), Take(GoogleQuery, 12),
     <<0, 3, 9, 8, 7, 6, 5>>}

\* lengths of the long payloads, all zero bytes
LongSizes == {MaxU16 - 16, MaxU16 - 15}

\* a peer is described by what it builds: a make_dns_query call, literal
\* bytes, or `size` zero bytes
DnsClients ==
    {[kind |-> "dns_query", domain |-> d, tid |-> t, raw |-> <<>>, size |-> 0] :
        d \in Domains, t \in Tids}

RawClients ==
    {[kind |-> "raw", domain |-> <<>>, tid |-> <<>>, raw |-> p, size |-> 0] :
        p \in RawPayloads}

LongClients ==
    {[kind |-> "zeros", domain |-> <<>>, tid |-> <<>>, raw |-> <<>>, size |-> n] :
        n \in LongSizes}

NoClient == [kind |-> "none", domain |-> <<>>, tid |-> <<>>, raw |-> <<>>, size |-> 0]

\* the payload the peer built
PayloadOf(c) ==
    CASE c.kind = "dns_query" -> MakeDnsQuery(c.domain, c.tid)
      [] c.kind = "raw" -> c.raw
      [] c.kind = "zeros" -> Zeros(c.size)
      [] OTHER -> <<>>

\* struct.pack('!H', len(dns_query)) + dns_query
Frame(p) == Pack16(Len(p)) \o p

\* segment sizes the network may deliver, besides "all that is left"
ChunkSizes == {1, 2, 14}

NoTcpClient == [peer |-> NoClient, framed |-> FALSE, keep |-> 0]

\* the DNS responders are not part of the specification
DnsOff ==
    /\ client = NoTcpClient /\ udp_client = NoClient
    /\ inflight = <<>> /\ rbuf = <<>> /\ query = <<>> /\ out = <<>>
    /\ udp_data = <<>> /\ udp_out = <<>> /\ udp_result = "none" /\ segs = 0
    /\ fin = FALSE /\ length_data = <<>> /\ query_length = 0 /\ result = "none"
    /\ conn_closed = FALSE /\ pc = "off"

(***************************************************************************)
(* Spec: one exchange at a time with the DNS responders of                 *)
(* dns_test_server.py.  The TCP handler threads and the UDP loop share no  *)
(* state, so the state keeps the most recent exchange only.                *)
(***************************************************************************)
TcpIdle ==
    /\ client = NoTcpClient /\ inflight = <<>> /\ rbuf = <<>> /\ query = <<>>
    /\ out = <<>> /\ segs = 0 /\ fin = FALSE /\ length_data = <<>>
    /\ query_length = 0 /\ result = "none" /\ conn_closed = FALSE /\ pc = "idle"

UdpIdle ==
    /\ udp_data = <<>> /\ udp_out = <<>> /\ udp_client = NoClient
    /\ udp_result = "none"

InitDns ==
    TcpIdle /\ UdpIdle /\ LsnOff /\ CliOff /\ FleetOff /\ LoopsOff /\ LogOff

\* the locals of a finished exchange are gone
TcpReset ==
    /\ client' = NoTcpClient /\ inflight' = <<>> /\ rbuf' = <<>> /\ query' = <<>>
    /\ out' = <<>> /\ segs' = 0 /\ fin' = FALSE /\ length_data' = <<>>
    /\ query_length' = 0 /\ result' = "none" /\ conn_closed' = FALSE /\ pc' = "idle"

UdpReset ==
    /\ udp_data' = <<>> /\ udp_out' = <<>> /\ udp_client' = NoClient
    /\ udp_result' = "none"

\* dns_tcp_server: accept() returns a connection on which the peer wrote
\* `keep` bytes of its request, framed or not, and a handler thread starts
TcpConnect ==
    /\ pc = "idle" /\ udp_result = "none"
    /\ \E c \in DnsClients \cup RawClients \cup LongClients, framed \in BOOLEAN :
         LET wire == IF framed THEN Frame(PayloadOf(c)) ELSE PayloadOf(c) IN
         \E keep \in {0, 1, 2, Len(wire) - 1, Len(wire)} \cap 0..Len(wire) :
            /\ client' = [peer |-> c, framed |-> framed, keep |-> keep]
            /\ inflight' = Take(wire, keep)
    /\ rbuf' = <<>> /\ query' = <<>> /\ out' = <<>> /\ segs' = 0 /\ fin' = FALSE
    /\ length_data' = <<>> /\ query_length' = 0 /\ result' = "none"
    /\ conn_closed' = FALSE /\ pc' = "recv_len"
    /\ UNCHANGED <<udp_data, udp_out, udp_client, udp_result>>
    /\ UNCHANGED <<lsnVars, cliVars, fleetVars, loopVars, logVars>>

\* the network delivers the next segment
Deliver ==
    /\ pc \in {"recv_len", "recv_query"}
    /\ inflight # <<>>
    /\ \E k \in (ChunkSizes \cup {Len(inflight)}) \cap 1..Len(inflight) :
         /\ segs + 1 < MaxSegments \/ k = Len(inflight)
         /\ rbuf' = rbuf \o Take(inflight, k)
         /\ inflight' = Drop(inflight, k)
    /\ segs' = segs + 1
    /\ UNCHANGED <<client, query, out, udp_data, udp_out, udp_client, udp_result,
                   fin, length_data, query_length, result, conn_closed, pc>>
    /\ UNCHANGED <<lsnVars, cliVars, fleetVars, loopVars, logVars>>

\* the peer closes its side (sock.close() of the client)
PeerClose ==
    /\ pc \in {"recv_len", "recv_query"}
    /\ ~fin
    /\ fin' = TRUE
    /\ UNCHANGED <<client, inflight, rbuf, query, out, udp_data, udp_out, udp_client,
                   udp_result, segs, length_data, query_length, result,
                   conn_closed, pc>>
    /\ UNCHANGED <<lsnVars, cliVars, fleetVars, loopVars, logVars>>

\* a blocking conn.recv(n), n > 0, returns: data is buffered, or end of stream
Readable == rbuf # <<>> \/ (inflight = <<>> /\ fin)

\* lines 58-66: length_data = conn.recv(2)
RecvLen ==
    /\ pc = "recv_len"
    /\ Readable
    /\ length_data' = Take(rbuf, 2)
    /\ rbuf' = Drop(rbuf, 2)
    /\ IF Len(length_data') # 2
       THEN /\ result' = "invalid_prefix"
            /\ conn_closed' = TRUE
            /\ pc' = "closed"
            /\ UNCHANGED query_length
       ELSE /\ query_length' = Unpack16(length_data')
            /\ pc' = "recv_query"
            /\ UNCHANGED <<result, conn_closed>>
    /\ UNCHANGED <<client, inflight, query, out, udp_data, udp_out, udp_client,
                   udp_result, segs, fin>>
    /\ UNCHANGED <<lsnVars, cliVars, fleetVars, loopVars, logVars>>

\* lines 68-104: query = conn.recv(query_length), the response, sendall, close
TcpRespond ==
    /\ pc = "recv_query"
    /\ query_length = 0 \/ Readable
    /\ query' = Take(rbuf, query_length)
    /\ rbuf' = Drop(rbuf, query_length)
    /\ LET response == DnsResponse(query') IN
         \/ /\ PackRaises(Len(response))
            /\ out' = <<>>
            /\ result' = "error:pack"
         \/ /\ ~PackRaises(Len(response))
            /\ out' = Pack16(Len(response)) \o response
            /\ result' = "responded"
         \/ /\ ~PackRaises(Len(response))
            /\ \E n \in {0, 1} : out' = Take(Pack16(Len(response)) \o response, n)
            /\ result' = "error:send"
    /\ conn_closed' = TRUE
    /\ pc' = "closed"
    /\ UNCHANGED <<client, inflight, udp_data, udp_out, udp_client, udp_result,
                   segs, fin, length_data, query_length>>
    /\ UNCHANGED <<lsnVars, cliVars, fleetVars, loopVars, logVars>>

\* conn.recv raises (connection reset): except, then finally conn.close()
RecvError ==
    /\ pc \in {"recv_len", "recv_query"}
    /\ result' = "error:recv"
    /\ conn_closed' = TRUE
    /\ pc' = "closed"
    /\ UNCHANGED <<client, inflight, rbuf, query, out, udp_data, udp_out, udp_client,
                   udp_result, segs, fin, length_data, query_length>>
    /\ UNCHANGED <<lsnVars, cliVars, fleetVars, loopVars, logVars>>

\* the handler thread returns
HandlerExit ==
    /\ pc = "closed"
    /\ TcpReset
    /\ UNCHANGED <<udp_data, udp_out, udp_client, udp_result>>
    /\ UNCHANGED <<lsnVars, cliVars, fleetVars, loopVars, logVars>>

\* datagrams a UDP peer may send
UdpClients ==
    DnsClients \cup RawClients
        \cup {[kind |-> "zeros", domain |-> <<>>, tid |-> <<>>, raw |-> <<>>, size |-> 600]}

\* dns_udp_server, one iteration of the loop: recvfrom(512), response, sendto
UdpServe ==
    /\ pc = "idle" /\ udp_result = "none"
    /\ \E c \in UdpClients :
         /\ udp_client' = c
         /\ udp_data' = Take(PayloadOf(c), 512)
    /\ \/ /\ udp_out' = DnsResponse(udp_data')
          /\ udp_result' = "responded"
       \/ /\ udp_out' = <<>>
          /\ udp_result' = "error"
    /\ UNCHANGED <<client, inflight, rbuf, query, out, segs, fin, length_data,
                   query_length, result, conn_closed, pc>>
    /\ UNCHANGED <<lsnVars, cliVars, fleetVars, loopVars, logVars>>

\* recvfrom raises: the except clause prints and the loop goes on
UdpRecvError ==
    /\ pc = "idle" /\ udp_result = "none"
    /\ udp_client' = NoClient /\ udp_data' = <<>> /\ udp_out' = <<>>
    /\ udp_result' = "error"
    /\ UNCHANGED <<client, inflight, rbuf, query, out, segs, fin, length_data,
                   query_length, result, conn_closed, pc>>
    /\ UNCHANGED <<lsnVars, cliVars, fleetVars, loopVars, logVars>>

\* while True: the next iteration of the UDP loop
UdpLoop ==
    /\ udp_result # "none"
    /\ UdpReset
    /\ UNCHANGED <<client, inflight, rbuf, query, out, segs, fin, length_data,
                   query_length, result, conn_closed, pc>>
    /\ UNCHANGED <<lsnVars, cliVars, fleetVars, loopVars, logVars>>

NextDns ==
    \/ TcpConnect
    \/ Deliver
    \/ PeerClose
    \/ RecvLen
    \/ TcpRespond
    \/ RecvError
    \/ HandlerExit
    \/ UdpServe
    \/ UdpRecvError
    \/ UdpLoop

Spec == InitDns /\ [][NextDns]_vars

(***************************************************************************)
(* Claims about the DNS responders, checked under Spec.                    *)
(***************************************************************************)
\* handle_dns_tcp got past both recv calls: `query` is what it read
QueryRead == pc = "closed" /\ result \in {"responded", "error:pack", "error:send"}

\* the peer wrote the whole of Frame(payload)
WholeFrameSent == client.framed /\ client.keep = Len(PayloadOf(client.peer)) + 2

\* C1: the response synthesized for a query built by make_dns_query, by the
\* TCP responder (after the 2-byte length prefix) and by the UDP responder,
\* starts with the transaction id the query was built with.
C1_TransactionIdPreserved ==
    /\ (result = "responded" /\ client.peer.kind = "dns_query"
            /\ query = PayloadOf(client.peer))
          => /\ SubSeq(out, 3, 4) = client.peer.tid
             /\ SubSeq(out, 3, 4) = SubSeq(query, 1, 2)
    /\ (udp_result = "responded" /\ udp_client.kind = "dns_query")
          => /\ SubSeq(udp_out, 1, 2) = udp_client.tid
             /\ SubSeq(udp_out, 1, 2) = SubSeq(PayloadOf(udp_client), 1, 2)

C1_Witness ==
    /\ result = "responded" /\ client.peer.kind = "dns_query"
    /\ client.peer.domain = GoogleCom /\ client.peer.tid = <<170, 187>>
    /\ query = PayloadOf(client.peer)
    /\ SubSeq(out, 3, 4) = <<170, 187>>

C1_WitnessUdp ==
    /\ udp_result = "responded" /\ udp_client.kind = "dns_query"
    /\ udp_client.domain = GoogleCom /\ SubSeq(udp_out, 1, 2) = udp_client.tid

\* the bytes C2 describes for query q: prefix, header, q[12:], answer record
FramedResponseTo(q, sent) ==
    /\ Len(sent) = 2 + Len(q) + 16
    /\ sent[1] * 256 + sent[2] = Len(q) + 16
    /\ sent[1] \in 0..255 /\ sent[2] \in 0..255
    /\ \A i \in 13..Len(q) : sent[2 + i] = q[i]
    /\ SubSeq(sent, Len(sent) - 15, Len(sent)) =
          <<192, 12, 0, 1, 0, 1, 0, 0, 1, 44, 0, 4, 172, 217, 14, 206>>

\* C2 as stated: every query of 12 bytes or more read by the TCP responder is
\* answered with the length prefix len(query) + 16, the header, query[12:]
\* and the fixed answer record (unless sendall itself fails).
C2_EveryQueryAnswered ==
    (QueryRead /\ Len(query) >= 12 /\ result # "error:send")
        => FramedResponseTo(query, out)

\* C2 amended: the same for queries of 12..65519 bytes; for 65520..65535
\* bytes the response does not fit the 2-byte prefix and nothing is sent.
C2_QueryAnsweredIfFramable ==
    (QueryRead /\ Len(query) >= 12 /\ result # "error:send")
        => IF Len(query) <= 65519
           THEN result = "responded" /\ FramedResponseTo(query, out)
           ELSE result = "error:pack" /\ out = <<>>

\* the end-to-end scenario of the spec: the literal AABB query over TCP
C2_Witness ==
    /\ result = "responded"
    /\ query = <<170, 187, 1, 0, 0, 1, 0, 0, 0, 0, 0, 0,
                 6, 103, 111, 111, 103, 108, 101, 3, 99, 111, 109, 0, 0, 1, 0, 1>>
    /\ SubSeq(out, 1, 4) = <<0, 44, 170, 187>>
    /\ SubSeq(out, Len(out) - 15, Len(out)) = Answer

\* C3: a query shorter than 12 bytes gets no response, over TCP and over UDP.
C3_ShortQueryRejected ==
    /\ (QueryRead /\ Len(query) < 12) => (result # "responded" /\ out = <<>>)
    /\ (udp_result # "none" /\ udp_client.kind # "none" /\ Len(udp_data) < 12)
          => (udp_result # "responded" /\ udp_out = <<>>)

\* C4: whenever the peer wrote the whole frame of payload P and no recv
\* raised, the responder's length-prefixed read obtains exactly P.
C4_FramingRoundTrip ==
    (pc = "closed" /\ WholeFrameSent /\ result # "error:recv")
        => (Len(length_data) = 2 /\ query = PayloadOf(client.peer))

\* C5: a read that obtains fewer than 2 prefix bytes, or fewer payload bytes
\* than the prefix declares, closes the connection without any response.
C5_ShortReadIsFramingError ==
    (pc = "closed" /\ (result = "invalid_prefix"
                        \/ (QueryRead /\ Len(query) < query_length)))
        => (conn_closed /\ out = <<>>)

(***************************************************************************)
(* SpecListeners: TCP connections to the echo listeners.  A connection is  *)
(* served by handle_tcp (multiport_analyzer.py), which logs to the shared  *)
(* connection_log, or by handle_tcp_client (dns_test_server.py).           *)
(***************************************************************************)
\* connections accepted in one run
NumClients == 2

\* bufsize of conn.recv(4096)
RecvSize == 4096

\* listeners connections arrive at: two of the fleet's `ports`, and
\* tcp_echo_server(5353) of dns_test_server.py
TcpListeners ==
    {[impl |-> "fleet", port |-> 53, name |-> "DNS"],
     [impl |-> "fleet", port |-> 22, name |-> "SSH"],
     [impl |-> "dnstest", port |-> 5353, name |-> "TCP-ECHO:5353"]}

\* str.encode() of the listener names
Ascii(name) ==
    CASE name = "DNS" -> <<68, 78, 83>>
      [] name = "SSH" -> <<83, 83, 72>>
      [] name = "TCP-ECHO:5353" -> <<84, 67, 80, 45, 69, 67, 72, 79, 58, 53, 51, 53, 51>>
      [] name = "SSH-ALT" -> <<83, 83, 72, 45, 65, 76, 84>>
      [] name = "HTTPS" -> <<72, 84, 84, 80, 83>>
      [] name = "HTTPS-ALT" -> <<72, 84, 84, 80, 83, 45, 65, 76, 84>>
      [] name = "TEST-DNS" -> <<84, 69, 83, 84, 45, 68, 78, 83>>

\* b"ECHO:"
EchoTag == <<69, 67, 72, 79, 58>>

\* what client number c sends: the payloads are pairwise distinct
Payload(c) == <<64 + c, 10, 64 + c>>

\* str(client_addr), the text of the tuple (host, port), as the pieces of
\* text before and after its comma, and the comma
Addr(c) == <<"('10.0.0.7'", ",", " " \o ToString(40000 + c) \o ")">>

RECURSIVE Hex(_)
\* data.hex(): two digits per byte, a digit is a number 0..15
Hex(data) ==
    IF data = <<>> THEN <<>>
    ELSE <<data[1] \div 16, data[1] % 16>> \o Hex(Tail(data))

\* mutant of EchoResponse: the data of the first connection, as if the
\* handlers shared one buffer
EchoResponseShared(l, data) ==
    EchoTag \o Ascii(l.name) \o <<58>> \o conns[1].data

\* handle_tcp: f"ECHO:{protocol_name}:".encode() + data
\* handle_tcp_client: b"ECHO:" + data
EchoResponse(l, data) ==
    IF l.impl = "fleet"
    THEN EchoTag \o Ascii(l.name) \o <<58>> \o data
    ELSE EchoTag \o data

\* the entry log_connection appends; the timestamp is the reading of a clock
\* that ticks once per entry
Entry(timestamp, port, protocol, client_addr, data_len, data_hex, status) ==
    [timestamp |-> timestamp, port |-> port, protocol |-> protocol,
     client |-> client_addr, data_len |-> data_len, data_hex |-> data_hex,
     status |-> status]

\* mutant of CanLog: log_connection without the lock
CanLogUnlocked == TRUE

\* `with lock:` in log_connection
CanLog == lock = 0

\* log_connection(port, f"TCP-{protocol_name}", addr, ...) of connection c;
\* the lock is taken and released within the step
LogConnection(c, data_len, data_hex, status) ==
    /\ CanLog
    /\ connection_log' = Append(connection_log,
           Entry(Len(connection_log) + 1,
                 conns[c].listener.port, "TCP-" \o conns[c].listener.name,
                 Addr(c), data_len, data_hex, status))
    /\ UNCHANGED lock

\* the identifier of the dump_stats thread as lock holder
StatsThread == -1

InitListeners ==
    /\ connection_log = <<>> /\ lock = 0 /\ conns = <<>> /\ st = StatsAsleep
    /\ DnsOff /\ CliOff /\ FleetOff /\ LoopsOff /\ LogOff

\* an accept loop that serves the connection itself: the next accept() is
\* reached only when the handlers before it have returned
AcceptAfterHandlers ==
    /\ Len(conns) < NumClients
    /\ \A c \in 1..Len(conns) : conns[c].pc = "done"
    /\ \E l \in TcpListeners :
         conns' = Append(conns, [listener |-> l, pc |-> "recv",
                                 data |-> <<>>, out |-> <<>>])
    /\ UNCHANGED <<connection_log, lock, st, dnsVars, cliVars, fleetVars, loopVars, logVars>>

\* tcp_listener / tcp_echo_server: accept() and the start of a handler thread
Accept ==
    /\ Len(conns) < NumClients
    /\ \E l \in TcpListeners :
         conns' = Append(conns, [listener |-> l, pc |-> "recv",
                                 data |-> <<>>, out |-> <<>>])
    /\ UNCHANGED <<connection_log, lock, st, dnsVars, cliVars, fleetVars, loopVars, logVars>>

\* conn.recv(4096) returns: all the peer sent, its first byte only, or
\* nothing because the peer closed
Recv(c) ==
    /\ conns[c].pc = "recv"
    /\ \E arrived \in {Payload(c), Take(Payload(c), 1), <<>>} :
         conns' = [conns EXCEPT ![c].data = Take(arrived, RecvSize),
                                ![c].pc = IF conns[c].listener.impl = "fleet"
                                          THEN "log_received" ELSE "send"]
    /\ UNCHANGED <<connection_log, lock, st, dnsVars, cliVars, fleetVars, loopVars, logVars>>

\* handle_tcp: conn.recv raises socket.timeout after settimeout(5)
RecvTimeout(c) ==
    /\ conns[c].pc = "recv"
    /\ conns[c].listener.impl = "fleet"
    /\ conns' = [conns EXCEPT ![c].pc = "log_timeout"]
    /\ UNCHANGED <<connection_log, lock, st, dnsVars, cliVars, fleetVars, loopVars, logVars>>

\* conn.recv raises another exception; handle_tcp_client prints and closes
RecvFails(c) ==
    /\ conns[c].pc = "recv"
    /\ conns' = [conns EXCEPT ![c].pc = IF conns[c].listener.impl = "fleet"
                                        THEN "log_error" ELSE "done"]
    /\ UNCHANGED <<connection_log, lock, st, dnsVars, cliVars, fleetVars, loopVars, logVars>>

\* handle_tcp without `if data:`: the response is sent and logged also after
\* an empty read
LogReceivedAlwaysEchoes(c) ==
    /\ conns[c].pc = "log_received"
    /\ LogConnection(c, Len(conns[c].data), Hex(conns[c].data), "RECEIVED")
    /\ conns' = [conns EXCEPT
                    ![c].out = EchoResponse(conns[c].listener, conns[c].data),
                    ![c].pc = "log_sent"]
    /\ UNCHANGED <<st, dnsVars, cliVars, fleetVars, loopVars, logVars>>

\* handle_tcp lines 63-69: log RECEIVED, then `if data:` sendall(response)
LogReceived(c) ==
    /\ conns[c].pc = "log_received"
    /\ LogConnection(c, Len(conns[c].data), Hex(conns[c].data), "RECEIVED")
    /\ IF conns[c].data # <<>>
       THEN \/ conns' = [conns EXCEPT
                            ![c].out = EchoResponse(conns[c].listener, conns[c].data),
                            ![c].pc = "log_sent"]
            \/ conns' = [conns EXCEPT ![c].pc = "log_timeout", ![c].data = <<>>]
            \/ conns' = [conns EXCEPT ![c].pc = "log_error", ![c].data = <<>>]
       ELSE conns' = [conns EXCEPT ![c].pc = "done"]
    /\ UNCHANGED <<st, dnsVars, cliVars, fleetVars, loopVars, logVars>>

\* handle_tcp line 69 and the finally clause: log SENT_ECHO, conn.close()
LogSent(c) ==
    /\ conns[c].pc = "log_sent"
    /\ LogConnection(c, Len(conns[c].out), <<>>, "SENT_ECHO")
    /\ conns' = [conns EXCEPT ![c].pc = "done", ![c].data = <<>>, ![c].out = <<>>]
    /\ UNCHANGED <<st, dnsVars, cliVars, fleetVars, loopVars, logVars>>

\* handle_tcp lines 71-72 and 75-76
LogTimeout(c) ==
    /\ conns[c].pc = "log_timeout"
    /\ LogConnection(c, 0, <<>>, "TIMEOUT")
    /\ conns' = [conns EXCEPT ![c].pc = "done"]
    /\ UNCHANGED <<st, dnsVars, cliVars, fleetVars, loopVars, logVars>>

\* handle_tcp lines 73-76
LogError(c) ==
    /\ conns[c].pc = "log_error"
    /\ LogConnection(c, 0, <<>>, "ERROR:reset")
    /\ conns' = [conns EXCEPT ![c].pc = "done"]
    /\ UNCHANGED <<st, dnsVars, cliVars, fleetVars, loopVars, logVars>>

\* handle_tcp_client lines 20-25: conn.sendall(b"ECHO:" + data), or it raises
SendEcho(c) ==
    /\ conns[c].pc = "send"
    /\ \/ conns' = [conns EXCEPT
                       ![c].out = EchoResponse(conns[c].listener, conns[c].data),
                       ![c].pc = "close"]
       \/ conns' = [conns EXCEPT ![c].pc = "close"]
    /\ UNCHANGED <<connection_log, lock, st, dnsVars, cliVars, fleetVars, loopVars, logVars>>

\* handle_tcp_client lines 26-27: finally conn.close(); the thread ends
CloseEcho(c) ==
    /\ conns[c].pc = "close"
    /\ conns' = [conns EXCEPT ![c].pc = "done", ![c].data = <<>>, ![c].out = <<>>]
    /\ UNCHANGED <<connection_log, lock, st, dnsVars, cliVars, fleetVars, loopVars, logVars>>

\* f"{entry['protocol']}:{entry['port']}"
Key(entry) == entry.protocol \o ":" \o ToString(entry.port)

\* mutant of AddEntry: bytes assigned instead of accumulated
AddEntryOverwrite(stats, entry) ==
    LET key == Key(entry)
        old == IF key \in DOMAIN stats THEN stats[key]
               ELSE [count |-> 0, bytes |-> 0, clients |-> {}]
    IN  [k \in DOMAIN stats \cup {key} |->
            IF k = key
            THEN [count |-> old.count + 1, bytes |-> entry.data_len,
                  clients |-> old.clients \cup {entry.client}]
            ELSE stats[k]]

\* dump_stats lines 115-120: one iteration of the loop over connection_log
AddEntry(stats, entry) ==
    LET key == Key(entry)
        old == IF key \in DOMAIN stats THEN stats[key]
               ELSE [count |-> 0, bytes |-> 0, clients |-> {}]
    IN  [k \in DOMAIN stats \cup {key} |->
            IF k = key
            THEN [count |-> old.count + 1, bytes |-> old.bytes + entry.data_len,
                  clients |-> old.clients \cup {entry.client}]
            ELSE stats[k]]

\* dump_stats lines 106-113: the sleep ends, the lock is taken, the total is
\* printed and stats = {}
StatsBegin ==
    /\ st.pc = "sleep"
    /\ lock = 0
    /\ lock' = StatsThread
    /\ st' = [pc |-> "loop", i |-> 1, total |-> Len(connection_log), stats |-> <<>>]
    /\ UNCHANGED <<connection_log, conns, dnsVars, cliVars, fleetVars, loopVars, logVars>>

\* dump_stats lines 114-120: `for entry in connection_log`, one entry
StatsStep ==
    /\ st.pc = "loop"
    /\ st.i <= Len(connection_log)
    /\ st' = [st EXCEPT !.stats = AddEntry(st.stats, connection_log[st.i]),
                        !.i = st.i + 1]
    /\ UNCHANGED <<connection_log, lock, conns, dnsVars, cliVars, fleetVars, loopVars, logVars>>

\* dump_stats lines 122-125: the table is printed and the lock released
StatsEnd ==
    /\ st.pc = "loop"
    /\ st.i > Len(connection_log)
    /\ lock' = 0
    /\ st' = StatsAsleep
    /\ UNCHANGED <<connection_log, conns, dnsVars, cliVars, fleetVars, loopVars, logVars>>

\* the connections accepted so far
Accepted == 1..Len(conns)

NextListeners ==
    \/ Accept
    \/ \E c \in Accepted : Recv(c)
    \/ \E c \in Accepted : RecvTimeout(c)
    \/ \E c \in Accepted : RecvFails(c)
    \/ \E c \in Accepted : LogReceived(c)
    \/ \E c \in Accepted : LogSent(c)
    \/ \E c \in Accepted : LogTimeout(c)
    \/ \E c \in Accepted : LogError(c)
    \/ \E c \in Accepted : SendEcho(c)
    \/ \E c \in Accepted : CloseEcho(c)
    \/ StatsBegin
    \/ StatsStep
    \/ StatsEnd

SpecListeners == InitListeners /\ [][NextListeners]_vars

\* Scheduling of the threads.  handle_tcp sets a 5 s timeout, so its recv
\* returns or raises; handle_tcp_client sets none, so its recv returns only
\* when the peer sends or closes, which no peer has to do.  A handler that
\* waits for the lock gets it: dump_stats sleeps 30 s between two rounds.
HandlerFairness(c) ==
    /\ WF_vars(/\ c \in Accepted
               /\ conns[c].listener.impl = "fleet"
               /\ (Recv(c) \/ RecvTimeout(c) \/ RecvFails(c)))
    /\ SF_vars(c \in Accepted /\ LogReceived(c))
    /\ SF_vars(c \in Accepted /\ LogSent(c))
    /\ SF_vars(c \in Accepted /\ LogTimeout(c))
    /\ SF_vars(c \in Accepted /\ LogError(c))
    /\ WF_vars(c \in Accepted /\ SendEcho(c))
    /\ WF_vars(c \in Accepted /\ CloseEcho(c))

SpecListenersLive ==
    /\ SpecListeners
    /\ \A c \in 1..NumClients : HandlerFairness(c)
    /\ WF_vars(StatsStep)
    /\ WF_vars(StatsEnd)

(***************************************************************************)
(* Claims about the echo listeners and the statistics, checked under       *)
(* SpecListeners.                                                          *)
(***************************************************************************)
IsPrefixOf(p, s) == Len(p) <= Len(s) /\ SubSeq(s, 1, Len(p)) = p

\* the literal prefix of the responses of connection c's listener
EchoPrefixOf(c) ==
    IF conns[c].listener.impl = "fleet"
    THEN <<69, 67, 72, 79, 58>> \o Ascii(conns[c].listener.name) \o <<58>>
    ELSE <<69, 67, 72, 79, 58>>

\* C6: whatever the interleaving of the handler threads, the response a
\* client gets is its listener's ECHO prefix followed by bytes of its own
\* payload, never by the payload of another client.
C6_ConcurrencyIsolation ==
    \A c \in Accepted :
        conns[c].out # <<>> =>
            /\ IsPrefixOf(EchoPrefixOf(c), conns[c].out)
            /\ LET body == Drop(conns[c].out, Len(EchoPrefixOf(c))) IN
                 /\ IsPrefixOf(body, Payload(c))
                 /\ \A d \in 1..NumClients :
                       (d # c /\ body # <<>>) => ~IsPrefixOf(body, Payload(d))

\* two clients of one listener hold their responses at the same time
C6_Witness ==
    /\ Len(conns) >= 2
    /\ conns[1].listener = conns[2].listener
    /\ conns[1].out = EchoPrefixOf(1) \o Payload(1)
    /\ conns[2].out = EchoPrefixOf(2) \o Payload(2)
    /\ Payload(1) # Payload(2)

\* indices of the first n logged events whose key is k
EventsOf(k, n) ==
    {i \in 1..n : connection_log[i].protocol \o ":"
                     \o ToString(connection_log[i].port) = k}

RECURSIVE SumDataLen(_)
\* sum of data_len over a set of log indices
SumDataLen(idx) ==
    IF idx = {} THEN 0
    ELSE LET i == CHOOSE j \in idx : TRUE
         IN  connection_log[i].data_len + SumDataLen(idx \ {i})

\* the buckets of the first n logged events
BucketsMatch(stats, n) ==
    /\ DOMAIN stats = {connection_log[i].protocol \o ":"
                           \o ToString(connection_log[i].port) : i \in 1..n}
    /\ \A k \in DOMAIN stats :
          /\ stats[k].count = Cardinality(EventsOf(k, n))
          /\ stats[k].bytes = SumDataLen(EventsOf(k, n))
          /\ stats[k].clients = {connection_log[i].client : i \in EventsOf(k, n)}

\* C7: when the aggregation of dump_stats is complete, every bucket's count
\* is the number of logged events with its key, its bytes the sum of their
\* data_len and its client set the set of their client addresses (and while
\* the loop runs the same holds of the events visited so far).
C7_StatsBucketConsistency ==
    st.pc = "loop" =>
        /\ st.i - 1 <= Len(connection_log)
        /\ BucketsMatch(st.stats, st.i - 1)

\* a complete aggregation with two keys, and a bucket that counts two
\* events of one client
C7_Witness ==
    /\ st.pc = "loop" /\ st.i > Len(connection_log)
    /\ Cardinality(DOMAIN st.stats) >= 2
    /\ \E k \in DOMAIN st.stats :
          /\ st.stats[k].count = 2
          /\ Cardinality(st.stats[k].clients) = 1
          /\ st.stats[k].bytes > 0

RECURSIVE SumCounts(_, _)
\* sum of the counts of the buckets with keys in ks
SumCounts(stats, ks) ==
    IF ks = {} THEN 0
    ELSE LET k == CHOOSE x \in ks : TRUE
         IN  stats[k].count + SumCounts(stats, ks \ {k})

\* C8: during a snapshot the log keeps the length that was printed, and the
\* counts of the buckets of the complete aggregation add up to that total.
C8_TotalEqualsBucketCounts ==
    st.pc = "loop" =>
        /\ st.total = Len(connection_log)
        /\ st.i > Len(connection_log)
              => SumCounts(st.stats, DOMAIN st.stats) = st.total

\* a complete aggregation of two events while a handler waits for the lock
C8_Witness ==
    /\ st.pc = "loop" /\ st.i > Len(connection_log)
    /\ st.total >= 2
    /\ SumCounts(st.stats, DOMAIN st.stats) = st.total
    /\ \E c \in Accepted :
          conns[c].pc \in {"log_received", "log_sent", "log_timeout", "log_error"}

(***************************************************************************)
(* The probe runner of protocol_tester_client.py: test_protocol, the       *)
(* payload builders, run_tests and its analysis.                           *)
(***************************************************************************)
\* os.urandom(64): one representative of the 64 random bytes
Urandom64 == [i \in 1..64 |-> (37 * i) % 256]

\* os.urandom(32), the random field of the ClientHello
Urandom32 == SubSeq(Urandom64, 1, 32)

MakeSshBanner ==
    <<83, 83, 72, 45, 50, 46, 48, 45, 79, 112, 101, 110, 83, 83, 72, 95,
      56, 46, 50, 112, 49, 32, 85, 98, 117, 110, 116, 117, 45, 52, 117, 98,
      117, 110, 116, 117, 48, 46, 53, 13, 10>>

\* the handshake message and the record of make_https_clienthello; the two
\* length fields are the literals of the code
Handshake ==
    <<1>> \o <<0, 0, 60>> \o <<3, 3>> \o Urandom32 \o <<0>> \o <<0, 2>>
        \o <<0, 47>> \o <<1>> \o <<0>>

MakeHttpsClientHello == <<22>> \o <<3, 1>> \o <<0, 64>> \o Take(Handshake, 64)

\* the ten probes of run_tests, in the order they are appended
Probes ==
    << [name |-> "DNS TCP",            port |-> 53,   proto |-> "tcp", type |-> "DNS_QUERY"],
       [name |-> "DNS UDP",            port |-> 53,   proto |-> "udp", type |-> "DNS_QUERY"],
       [name |-> "DNS TCP (random)",   port |-> 53,   proto |-> "tcp", type |-> "RANDOM"],
       [name |-> "DNS UDP (random)",   port |-> 53,   proto |-> "udp", type |-> "RANDOM"],
       [name |-> "SSH:22 TCP",         port |-> 22,   proto |-> "tcp", type |-> "SSH_BANNER"],
       [name |-> "SSH:22 (random)",    port |-> 22,   proto |-> "tcp", type |-> "RANDOM"],
       [name |-> "SSH:2222 TCP",       port |-> 2222, proto |-> "tcp", type |-> "SSH_BANNER"],
       [name |-> "HTTPS:443",          port |-> 443,  proto |-> "tcp", type |-> "TLS_HELLO"],
       [name |-> "HTTPS:443 (random)", port |-> 443,  proto |-> "tcp", type |-> "RANDOM"],
       [name |-> "HTTPS:8443",         port |-> 8443, proto |-> "tcp", type |-> "TLS_HELLO"] >>

\* the data run_tests passes to test_protocol for probe i
ProbeData(i, tid) ==
    LET dns_query == MakeDnsQuery(GoogleCom, tid) IN
    CASE Probes[i].type = "DNS_QUERY" ->
             IF Probes[i].proto = "tcp"
             THEN Pack16(Len(dns_query)) \o dns_query
             ELSE dns_query
      [] Probes[i].type = "RANDOM"     -> Urandom64
      [] Probes[i].type = "SSH_BANNER" -> MakeSshBanner
      [] Probes[i].type = "TLS_HELLO"  -> MakeHttpsClientHello

\* response lengths of a probe that is answered
RecvLens == {1, 44}

\* str(e)[:30] of the exceptions the socket calls raise
Str30(e) ==
    CASE e = "reset"       -> "[Errno 104] Connection reset b"
      [] e = "unreachable" -> "[Errno 101] Network is unreach"

\* What the socket calls of one test_protocol run do: the outcome of connect
\* (TCP only), of sendall/sendto and of recv/recvfrom, the number of bytes
\* received and the milliseconds the run took.
IoAnswered(n) ==
    [connect |-> "ok", send |-> "ok", recv |-> "data", n |-> n, ms |-> 20]

\* The path conditions a run meets, and what the socket calls of a probe
\* that is not answered do under each of them.
Failures ==
    {"closed", "blackhole", "silent", "reset", "stalled", "hangup",
     "unreachable", "broken"}

IoFailed(f, proto) ==
    CASE f = "closed" ->
             IF proto = "tcp"
             THEN [connect |-> "refused", send |-> "-", recv |-> "-", n |-> 0, ms |-> 20]
             ELSE [connect |-> "ok", send |-> "ok", recv |-> "timeout", n |-> 0, ms |-> 5000]
      [] f = "blackhole" ->
             IF proto = "tcp"
             THEN [connect |-> "timeout", send |-> "-", recv |-> "-", n |-> 0, ms |-> 5000]
             ELSE [connect |-> "ok", send |-> "ok", recv |-> "timeout", n |-> 0, ms |-> 5000]
      [] f = "silent" ->
             [connect |-> "ok", send |-> "ok", recv |-> "timeout", n |-> 0, ms |-> 5000]
      [] f = "reset" ->
             IF proto = "tcp"
             THEN [connect |-> "ok", send |-> "ok", recv |-> "reset", n |-> 0, ms |-> 20]
             ELSE [connect |-> "ok", send |-> "unreachable", recv |-> "-", n |-> 0, ms |-> 0]
      [] f = "stalled" ->
             IF proto = "tcp"
             THEN [connect |-> "ok", send |-> "timeout", recv |-> "-", n |-> 0, ms |-> 5000]
             ELSE [connect |-> "ok", send |-> "ok", recv |-> "timeout", n |-> 0, ms |-> 5000]
      [] f = "hangup" ->
             [connect |-> "ok", send |-> "ok", recv |-> "data", n |-> 0, ms |-> 20]
      [] f = "unreachable" ->
             IF proto = "tcp"
             THEN [connect |-> "unreachable", send |-> "-", recv |-> "-", n |-> 0, ms |-> 0]
             ELSE [connect |-> "ok", send |-> "unreachable", recv |-> "-", n |-> 0, ms |-> 0]
      [] f = "broken" ->
             IF proto = "tcp"
             THEN [connect |-> "ok", send |-> "reset", recv |-> "-", n |-> 0, ms |-> 20]
             ELSE [connect |-> "ok", send |-> "ok", recv |-> "reset", n |-> 0, ms |-> 20]

\* test_protocol without the inner `except socket.timeout` clauses: a receive
\* timeout then reaches no assignment of the status
TestProtocolNoInnerExcept(port, proto, packet_type, data, io) ==
    LET res    == [port |-> port, proto |-> proto, type |-> packet_type,
                   sent_bytes |-> Len(data), status |-> "UNKNOWN",
                   recv_bytes |-> 0, time_ms |-> 0]
        raised == IF proto = "tcp" /\ io.connect # "ok" THEN io.connect
                  ELSE IF io.send # "ok" THEN io.send
                  ELSE IF io.recv \in {"data", "timeout"} THEN "none"
                  ELSE io.recv
    IN  CASE raised = "refused" -> [res EXCEPT !.status = "REFUSED"]
          [] raised = "timeout" -> [res EXCEPT !.status = "TIMEOUT"]
          [] raised \in {"reset", "unreachable"} ->
                 [res EXCEPT !.status = "ERROR:" \o Str30(raised)]
          [] raised = "none" /\ io.recv = "data" ->
                 [res EXCEPT !.recv_bytes = io.n, !.status = "SUCCESS",
                                !.time_ms = io.ms]
          [] raised = "none" /\ io.recv = "timeout" ->
                 [res EXCEPT !.time_ms = io.ms]

\* test_protocol with one handler for socket.timeout: a timeout of connect or
\* send is reported like a receive timeout
TestProtocolOneTimeoutHandler(port, proto, packet_type, data, io) ==
    LET res    == [port |-> port, proto |-> proto, type |-> packet_type,
                   sent_bytes |-> Len(data), status |-> "UNKNOWN",
                   recv_bytes |-> 0, time_ms |-> 0]
        raised == IF proto = "tcp" /\ io.connect # "ok" THEN io.connect
                  ELSE IF io.send # "ok" THEN io.send
                  ELSE IF io.recv \in {"data", "timeout"} THEN "none"
                  ELSE io.recv
    IN  CASE raised = "refused" -> [res EXCEPT !.status = "REFUSED"]
          [] raised = "timeout" -> [res EXCEPT !.status = "NO_RESPONSE"]
          [] raised \in {"reset", "unreachable"} ->
                 [res EXCEPT !.status = "ERROR:" \o Str30(raised)]
          [] raised = "none" /\ io.recv = "data" ->
                 [res EXCEPT !.recv_bytes = io.n, !.status = "SUCCESS",
                                !.time_ms = io.ms]
          [] raised = "none" /\ io.recv = "timeout" ->
                 [res EXCEPT !.status = "NO_RESPONSE", !.time_ms = io.ms]

\* test_protocol: the result record for one probe, given what its socket
\* calls do
TestProtocol(port, proto, packet_type, data, io) ==
    LET res    == [port |-> port, proto |-> proto, type |-> packet_type,
                   sent_bytes |-> Len(data), status |-> "UNKNOWN",
                   recv_bytes |-> 0, time_ms |-> 0]
        raised == IF proto = "tcp" /\ io.connect # "ok" THEN io.connect
                  ELSE IF io.send # "ok" THEN io.send
                  ELSE IF io.recv \in {"data", "timeout"} THEN "none"
                  ELSE io.recv
    IN  CASE raised = "refused" -> [res EXCEPT !.status = "REFUSED"]
          [] raised = "timeout" -> [res EXCEPT !.status = "TIMEOUT"]
          [] raised \in {"reset", "unreachable"} ->
                 [res EXCEPT !.status = "ERROR:" \o Str30(raised)]
          [] raised = "none" /\ io.recv = "data" ->
                 [res EXCEPT !.recv_bytes = io.n, !.status = "SUCCESS",
                                !.time_ms = io.ms]
          [] raised = "none" /\ io.recv = "timeout" ->
                 [res EXCEPT !.status = "NO_RESPONSE", !.time_ms = io.ms]

\* the lines of the ANALYSIS section
DnsTcpBlocked == "DNS UDP works, TCP DNS fails -> Iran blocks TCP on port 53"
DnsDpi == "Valid DNS works, random fails -> DPI validates DNS packet structure"
DnsOpen == "Both valid and random DNS work -> Port 53 TCP is open"
SshDpi == "SSH banner works, random fails -> DPI validates SSH protocol"
SshOpen == "Both SSH banner and random work -> Port 22 TCP is open"
HttpsDpi == "TLS hello works, random fails -> DPI validates TLS handshake"
HttpsOpen == "Both TLS and random work -> Port 443 TCP is open"

\* tests[i][1]['status'] == 'SUCCESS' (i counts from 0 as in the code)
Works(t, i) == t[i + 1][2].status = "SUCCESS"

\* the DNS analysis with dns_tcp_works read from the random probe
DnsAnalysisWrongProbe(t) ==
    LET dns_tcp_works == Works(t, 2)
        dns_udp_works == Works(t, 1)
        dns_tcp_rand  == Works(t, 2)
    IN  IF dns_udp_works /\ ~dns_tcp_works THEN <<DnsTcpBlocked>>
        ELSE IF dns_tcp_works /\ ~dns_tcp_rand THEN <<DnsDpi>>
        ELSE IF dns_tcp_works /\ dns_tcp_rand THEN <<DnsOpen>>
        ELSE <<>>

\* the DNS analysis with the valid-against-random comparison left out
DnsAnalysisNoRandom(t) ==
    LET dns_tcp_works == Works(t, 0)
        dns_udp_works == Works(t, 1)
    IN  IF dns_udp_works /\ ~dns_tcp_works THEN <<DnsTcpBlocked>>
        ELSE IF dns_tcp_works THEN <<DnsOpen>>
        ELSE <<>>

DnsAnalysis(t) ==
    LET dns_tcp_works == Works(t, 0)
        dns_udp_works == Works(t, 1)
        dns_tcp_rand  == Works(t, 2)
    IN  IF dns_udp_works /\ ~dns_tcp_works THEN <<DnsTcpBlocked>>
        ELSE IF dns_tcp_works /\ ~dns_tcp_rand THEN <<DnsDpi>>
        ELSE IF dns_tcp_works /\ dns_tcp_rand THEN <<DnsOpen>>
        ELSE <<>>

\* the SSH analysis with ssh_rand read from the SSH:2222 probe
SshAnalysisWrongProbe(t) ==
    LET ssh_works == Works(t, 4)
        ssh_rand  == Works(t, 6)
    IN  IF ssh_works /\ ~ssh_rand THEN <<SshDpi>>
        ELSE IF ssh_works /\ ssh_rand THEN <<SshOpen>>
        ELSE <<>>

SshAnalysis(t) ==
    LET ssh_works == Works(t, 4)
        ssh_rand  == Works(t, 5)
    IN  IF ssh_works /\ ~ssh_rand THEN <<SshDpi>>
        ELSE IF ssh_works /\ ssh_rand THEN <<SshOpen>>
        ELSE <<>>

HttpsAnalysis(t) ==
    LET https_works == Works(t, 7)
        https_rand  == Works(t, 8)
    IN  IF https_works /\ ~https_rand THEN <<HttpsDpi>>
        ELSE IF https_works /\ https_rand THEN <<HttpsOpen>>
        ELSE <<>>

\* run_tests starts with an empty list; the path condition is the
\* environment's and does not change during a run
InitClient ==
    /\ tests = <<>>
    /\ diag = <<>>
    /\ calls = <<>>
    /\ failure \in Failures
    /\ cpc = "probing"
    /\ DnsOff
    /\ LsnOff
    /\ FleetOff
    /\ LoopsOff
    /\ LogOff

\* run_tests keeping only the latest result of a port: the entry of an
\* earlier probe on the same port is replaced
RunProbeKeyedByPort ==
    /\ cpc = "probing"
    /\ Len(calls) < Len(Probes)
    /\ LET i == Len(calls) + 1
           p == Probes[i]
           same == {j \in 1..Len(tests) : tests[j][2].port = p.port}
       IN  \E tid \in Tids :
           \E io \in {IoAnswered(n) : n \in RecvLens} \cup {IoFailed(failure, p.proto)} :
              LET entry == <<p.name, TestProtocol(p.port, p.proto, p.type,
                                                  ProbeData(i, tid), io)>>
              IN  /\ tests' = IF same = {} THEN Append(tests, entry)
                              ELSE [tests EXCEPT ![CHOOSE j \in same : TRUE] = entry]
                  /\ calls' = Append(calls, io)
    /\ UNCHANGED <<diag, failure, cpc, dnsVars, lsnVars, fleetVars, loopVars, logVars>>

\* one tests.append((name, test_protocol(...))) of run_tests
RunProbe ==
    /\ cpc = "probing"
    /\ Len(tests) < Len(Probes)
    /\ LET i == Len(tests) + 1
           p == Probes[i]
       IN  \E tid \in Tids :
           \E io \in {IoAnswered(n) : n \in RecvLens} \cup {IoFailed(failure, p.proto)} :
              /\ tests' = Append(tests,
                    <<p.name, TestProtocol(p.port, p.proto, p.type, ProbeData(i, tid), io)>>)
              /\ calls' = Append(calls, io)
    /\ UNCHANGED <<diag, failure, cpc, dnsVars, lsnVars, fleetVars, loopVars, logVars>>

\* the ANALYSIS section, printed once all probes are in the list
Analyze ==
    /\ cpc = "probing"
    /\ Len(tests) = Len(Probes)
    /\ diag' = DnsAnalysis(tests) \o SshAnalysis(tests) \o HttpsAnalysis(tests)
    /\ cpc' = "done"
    /\ UNCHANGED <<tests, failure, calls, dnsVars, lsnVars, fleetVars, loopVars, logVars>>

NextClient ==
    \/ RunProbe
    \/ Analyze

SpecClient == InitClient /\ [][NextClient]_vars

\* Every socket call of test_protocol returns within the socket timeout and
\* run_tests only sleeps between the probes, so a step that is possible is
\* eventually taken.
SpecClientLive == SpecClient /\ WF_vars(RunProbe) /\ WF_vars(Analyze)

(***************************************************************************)
(* Claims about the analysis of run_tests, checked under SpecClient.       *)
(***************************************************************************)
\* the DNS lines of the printed analysis
DnsDiagnosis == SelectSeq(diag, LAMBDA l : l \in {DnsTcpBlocked, DnsDpi, DnsOpen})

StatusOf(i) == tests[i][2].status

\* C9: in every finished report where DNS UDP is SUCCESS and DNS TCP has any
\* other status than SUCCESS, the DNS diagnosis is the line that says TCP is
\* blocked on port 53, whatever the random probes returned.
C9_DnsTcpBlocked ==
    (cpc = "done" /\ StatusOf(2) = "SUCCESS" /\ StatusOf(1) # "SUCCESS")
        => DnsDiagnosis = <<DnsTcpBlocked>>

\* DNS TCP failed, DNS UDP and the random TCP probe succeeded, and the
\* analysis printed the TCP-blocked line
C9_Witness ==
    /\ cpc = "done"
    /\ StatusOf(1) \in {"NO_RESPONSE", "TIMEOUT", "REFUSED"}
           \cup {"ERROR:" \o Str30("reset")}
    /\ StatusOf(2) = "SUCCESS"
    /\ StatusOf(3) = "SUCCESS"
    /\ DnsDiagnosis = <<DnsTcpBlocked>>

\* C10 as stated: in every finished report where DNS TCP and DNS UDP are both
\* SUCCESS the DNS diagnosis is the port-is-open line.
C10_BothSuccessPortOpen ==
    (cpc = "done" /\ StatusOf(1) = "SUCCESS" /\ StatusOf(2) = "SUCCESS")
        => DnsDiagnosis = <<DnsOpen>>

\* C10 as the code has it: with DNS TCP and DNS UDP both SUCCESS the DNS
\* diagnosis is the port-is-open line when the random TCP probe on port 53 is
\* SUCCESS too, and the DPI line when it is not.
C10_BothSuccessDependsOnRandom ==
    (cpc = "done" /\ StatusOf(1) = "SUCCESS" /\ StatusOf(2) = "SUCCESS")
        => DnsDiagnosis = IF StatusOf(3) = "SUCCESS" THEN <<DnsOpen>>
                          ELSE <<DnsDpi>>

\* both DNS probes succeeded, the random TCP probe did not, and the analysis
\* printed the DPI line
C10_Witness ==
    /\ cpc = "done"
    /\ StatusOf(1) = "SUCCESS" /\ StatusOf(2) = "SUCCESS"
    /\ StatusOf(3) # "SUCCESS"
    /\ DnsDiagnosis = <<DnsDpi>>

\* the SSH lines and the HTTPS lines of the printed analysis
SshDiagnosis == SelectSeq(diag, LAMBDA l : l \in {SshDpi, SshOpen})

HttpsDiagnosis == SelectSeq(diag, LAMBDA l : l \in {HttpsDpi, HttpsOpen})

\* C11: in every finished report, for each family (DNS on 53/TCP, SSH on 22,
\* TLS on 443), when the protocol-correct probe is SUCCESS and the random
\* probe on the same port is not, the family's diagnosis is its DPI line.
C11_ValidWorksRandomFailsIsDpi ==
    cpc = "done" =>
        /\ (StatusOf(1) = "SUCCESS" /\ StatusOf(3) # "SUCCESS")
              => DnsDiagnosis = <<DnsDpi>>
        /\ (StatusOf(5) = "SUCCESS" /\ StatusOf(6) # "SUCCESS")
              => SshDiagnosis = <<SshDpi>>
        /\ (StatusOf(8) = "SUCCESS" /\ StatusOf(9) # "SUCCESS")
              => HttpsDiagnosis = <<HttpsDpi>>

\* in all three families the valid probe succeeded and the random one did
\* not (the SSH:2222 probe succeeded, DNS UDP failed), and the three DPI
\* lines were printed
C11_Witness ==
    /\ cpc = "done"
    /\ StatusOf(1) = "SUCCESS" /\ StatusOf(3) # "SUCCESS"
    /\ StatusOf(2) # "SUCCESS"
    /\ StatusOf(5) = "SUCCESS" /\ StatusOf(6) # "SUCCESS"
    /\ StatusOf(7) = "SUCCESS"
    /\ StatusOf(8) = "SUCCESS" /\ StatusOf(9) # "SUCCESS"
    /\ diag = <<DnsDpi, SshDpi, HttpsDpi>>

\* the default diagnosis the classifier is said to fall back to
Inconclusive == "inconclusive - see raw results"

\* C12: in every finished report exactly one diagnosis line is printed for
\* each family, in the order DNS, SSH, TLS, and when none of a family's rules
\* matches, the family's line is the inconclusive default.
C12_ExactlyOneLinePerFamily ==
    cpc = "done" =>
        /\ Len(diag) = 3
        /\ diag[1] \in {DnsTcpBlocked, DnsDpi, DnsOpen, Inconclusive}
        /\ diag[2] \in {SshDpi, SshOpen, Inconclusive}
        /\ diag[3] \in {HttpsDpi, HttpsOpen, Inconclusive}
        /\ (StatusOf(1) # "SUCCESS" /\ StatusOf(2) # "SUCCESS")
              => diag[1] = Inconclusive
        /\ StatusOf(5) # "SUCCESS" => diag[2] = Inconclusive
        /\ StatusOf(8) # "SUCCESS" => diag[3] = Inconclusive

\* the statuses ERROR:<msg> of the exceptions the socket calls raise
ErrorStatuses == {"ERROR:" \o Str30(e) : e \in {"reset", "unreachable"}}

TerminalStatuses ==
    {"SUCCESS", "NO_RESPONSE", "TIMEOUT", "REFUSED"} \cup ErrorStatuses

\* outcomes of connect, send and receive that have occurred in this run
Occurred(call) == {calls[i][call] : i \in 1..Len(calls)}

\* C13: every test_protocol call has returned a result (one per run of the
\* socket calls, whatever they did) whose status is SUCCESS, NO_RESPONSE,
\* TIMEOUT, REFUSED or ERROR:<msg>, never the placeholder UNKNOWN.
C13_TerminalStatus ==
    /\ Len(tests) = Len(calls)
    /\ \A i \in 1..Len(tests) :
          /\ StatusOf(i) \in TerminalStatuses
          /\ StatusOf(i) # "UNKNOWN"

\* runs in which a connect was refused, timed out or failed otherwise, a
\* send timed out or failed, a receive timed out or failed, and a probe was
\* answered
C13_Witness ==
    /\ Len(tests) = Len(Probes)
    /\ "ok" \in Occurred("connect") /\ "data" \in Occurred("recv")
    /\ \/ "refused" \in Occurred("connect") /\ "timeout" \in Occurred("recv")
       \/ "timeout" \in Occurred("connect")
       \/ "unreachable" \in Occurred("connect") /\ "unreachable" \in Occurred("send")
       \/ "timeout" \in Occurred("send")
       \/ "reset" \in Occurred("send") /\ "reset" \in Occurred("recv")

\* the report holds the results of the first n probes, under their names and
\* in the order of the probe list
ReportInOrder(n) ==
    /\ Len(tests) = n
    /\ \A i \in 1..n :
          /\ tests[i][1] = Probes[i].name
          /\ tests[i][2].port = Probes[i].port
          /\ tests[i][2].proto = Probes[i].proto
          /\ tests[i][2].type = Probes[i].type

\* a step keeps every entry of the report as and where it is
EntriesKept ==
    /\ Len(tests') >= Len(tests)
    /\ \A i \in 1..Len(tests) : tests'[i] = tests[i]

\* C14: whatever each probe returns, the sequence runs to completion and the
\* report then holds exactly one entry per probe of the list, in the order of
\* the list; no step overwrites, removes or reorders an entry.
C14_ReportCompleteAndStable ==
    /\ [][EntriesKept]_vars
    /\ [](ReportInOrder(Len(calls)) /\ Len(tests) <= Len(Probes))
    /\ <>[](cpc = "done" /\ ReportInOrder(Len(Probes)))

\* a complete report whose first probe was refused and whose later probes
\* were answered
C14_Witness ==
    /\ cpc = "done"
    /\ ReportInOrder(Len(Probes))
    /\ StatusOf(1) = "REFUSED"
    /\ StatusOf(5) = "SUCCESS"
    /\ StatusOf(10) = "SUCCESS"

\* connect (TCP only) and send of probe i completed
Sent(i) ==
    /\ Probes[i].proto = "tcp" => calls[i].connect = "ok"
    /\ calls[i].send = "ok"

\* C15: a probe is NO_RESPONSE exactly when its connect (TCP) and send
\* completed and its receive timed out; a timeout of connect or of send is
\* TIMEOUT, never NO_RESPONSE; a refused connect is REFUSED.
C15_TimeoutClassification ==
    \A i \in 1..Len(tests) :
        /\ StatusOf(i) = "NO_RESPONSE" <=> (Sent(i) /\ calls[i].recv = "timeout")
        /\ (Probes[i].proto = "tcp" /\ calls[i].connect = "timeout")
              => StatusOf(i) = "TIMEOUT"
        /\ ((Probes[i].proto = "tcp" => calls[i].connect = "ok")
                /\ calls[i].send = "timeout")
              => StatusOf(i) = "TIMEOUT"
        /\ (Probes[i].proto = "tcp" /\ calls[i].connect = "refused")
              => StatusOf(i) = "REFUSED"

\* complete runs with a connect timeout or a send timeout on the TCP probes
\* and a receive timeout on a UDP probe, and runs with a refused connect
C15_Witness ==
    /\ Len(tests) = Len(Probes)
    /\ \/ calls[1].connect = "timeout" /\ StatusOf(1) = "TIMEOUT"
       \/ calls[1].send = "timeout" /\ StatusOf(1) = "TIMEOUT"
       \/ calls[1].connect = "refused" /\ StatusOf(1) = "REFUSED"
    /\ calls[2].recv = "timeout" /\ StatusOf(2) = "NO_RESPONSE"
    /\ StatusOf(3) = "SUCCESS"

(***************************************************************************)
(* SpecFleet: __main__ of multiport_analyzer.py starts one listener thread *)
(* per entry of `ports`; each thread binds its socket and serves.          *)
(***************************************************************************)
\* the list `ports` of __main__
Ports ==
    << [port |-> 53,   name |-> "DNS",       proto |-> "tcp"],
       [port |-> 53,   name |-> "DNS",       proto |-> "udp"],
       [port |-> 22,   name |-> "SSH",       proto |-> "tcp"],
       [port |-> 2222, name |-> "SSH-ALT",   proto |-> "tcp"],
       [port |-> 443,  name |-> "HTTPS",     proto |-> "tcp"],
       [port |-> 8443, name |-> "HTTPS-ALT", proto |-> "tcp"],
       [port |-> 5353, name |-> "TEST-DNS",  proto |-> "tcp"],
       [port |-> 5353, name |-> "TEST-DNS",  proto |-> "udp"] >>

\* connections and datagrams the fleet serves in a run
MaxServed == 2

RECURSIVE TotalServed(_)
TotalServed(f) ==
    IF f = <<>> THEN 0 ELSE Head(f).served + TotalServed(Tail(f))

\* the listener threads started so far
Started == 1..Len(fleet)

InitFleet ==
    /\ fleet = <<>>
    /\ main_pc = "starting"
    /\ DnsOff /\ LsnOff /\ CliOff /\ LoopsOff /\ LogOff

\* __main__ lines 151-158: the thread of the next entry of `ports` is started
StartListener ==
    /\ main_pc = "starting"
    /\ Len(fleet) < Len(Ports)
    /\ fleet' = Append(fleet, [listener |-> Ports[Len(fleet) + 1],
                               st |-> "binding", served |-> 0])
    /\ UNCHANGED <<main_pc, dnsVars, lsnVars, cliVars, loopVars, logVars>>

\* __main__ lines 160-169: all threads are started; the stats thread is
\* started and the main thread sleeps in its loop
MainWaits ==
    /\ main_pc = "starting"
    /\ Len(fleet) = Len(Ports)
    /\ main_pc' = "waiting"
    /\ UNCHANGED <<fleet, dnsVars, lsnVars, cliVars, loopVars, logVars>>

\* tcp_listener lines 38-42, udp_listener lines 81-83: socket and bind succeed
BindOk(i) ==
    /\ main_pc \in {"starting", "waiting"}
    /\ fleet[i].st = "binding"
    /\ fleet' = [fleet EXCEPT ![i].st = "listening"]
    /\ UNCHANGED <<main_pc, dnsVars, lsnVars, cliVars, loopVars, logVars>>

\* a bind failure that ends the process
BindFailsExits(i) ==
    /\ main_pc \in {"starting", "waiting"}
    /\ fleet[i].st = "binding"
    /\ fleet' = [j \in Started |-> [fleet[j] EXCEPT !.st = "bind_failed"]]
    /\ main_pc' = "exited"
    /\ UNCHANGED <<dnsVars, lsnVars, cliVars, loopVars, logVars>>

\* tcp_listener lines 50-51, udp_listener lines 100-101: bind raises, the
\* outer except prints the error and the thread ends
BindFails(i) ==
    /\ main_pc \in {"starting", "waiting"}
    /\ fleet[i].st = "binding"
    /\ fleet' = [fleet EXCEPT ![i].st = "bind_failed"]
    /\ UNCHANGED <<main_pc, dnsVars, lsnVars, cliVars, loopVars, logVars>>

\* tcp_listener lines 44-47: a connection is accepted and handed to a
\* handler thread; udp_listener lines 85-96: a datagram is received and
\* answered
Serve(i) ==
    /\ main_pc \in {"starting", "waiting"}
    /\ fleet[i].st = "listening"
    /\ TotalServed(fleet) < MaxServed
    /\ fleet' = [fleet EXCEPT ![i].served = @ + 1]
    /\ UNCHANGED <<main_pc, dnsVars, lsnVars, cliVars, loopVars, logVars>>

NextFleet ==
    \/ StartListener
    \/ MainWaits
    \/ \E i \in Started : BindOk(i)
    \/ \E i \in Started : BindFails(i)
    \/ \E i \in Started : Serve(i)

SpecFleet == InitFleet /\ [][NextFleet]_vars

\* The main thread and every started thread get to run, and bind returns.
SpecFleetLive ==
    /\ SpecFleet
    /\ WF_vars(StartListener)
    /\ WF_vars(MainWaits)
    /\ \A i \in 1..Len(Ports) : WF_vars(i \in Started /\ (BindOk(i) \/ BindFails(i)))

(***************************************************************************)
(* Claims about the start of the fleet, checked under SpecFleetLive.       *)
(***************************************************************************)
\* a step leaves every listening listener listening
ListenersKept ==
    \A i \in Started : fleet[i].st = "listening" => fleet'[i].st = "listening"

\* every entry of `ports` has its thread, which is listening unless its own
\* bind failed
FleetUp ==
    /\ main_pc = "waiting"
    /\ Len(fleet) = Len(Ports)
    /\ \A i \in Started :
          /\ fleet[i].listener = Ports[i]
          /\ fleet[i].st \in {"listening", "bind_failed"}

\* C16: whichever binds fail, the process does not terminate, every entry of
\* `ports` gets its listener thread, a listener that is listening stays so,
\* and in the end every listener whose own bind did not fail is listening.
C16_BindFailureNonFatal ==
    /\ [](main_pc \in {"starting", "waiting"})
    /\ [][ListenersKept]_vars
    /\ <>[]FleetUp

\* the bind of the first listener failed; every other listener is
\* listening, and the TCP and the UDP listener after it have served
C16_Witness ==
    /\ main_pc = "waiting"
    /\ Len(fleet) = Len(Ports)
    /\ fleet[1].st = "bind_failed"
    /\ \A i \in 2..Len(Ports) : fleet[i].st = "listening"
    /\ fleet[2].served >= 1 /\ fleet[3].served >= 1

(***************************************************************************)
(* Claims about the progress of the handlers, checked under                *)
(* SpecListenersLive.                                                      *)
(***************************************************************************)
\* the handler of connection c has called conn.close()
Closed(c) == c \in Accepted /\ conns[c].pc = "done"

\* C17: every accepted TCP connection is eventually closed by its handler,
\* also when the peer never sends a byte.
C17_EveryConnectionClosed ==
    \A c \in 1..NumClients : [](c \in Accepted => <>Closed(c))

\* the same for the connections of handle_tcp alone
FleetConnectionsClosed ==
    \A c \in 1..NumClients :
        []((c \in Accepted /\ conns[c].listener.impl = "fleet")
               => <>Closed(c))

\* the handlers that are blocked in recv
Blocked == {c \in Accepted : conns[c].pc = "recv"}

\* C18: however many handlers are blocked waiting to read from their peers
\* (and whatever the other handlers and the stats thread are doing), the
\* accept loop can accept the next connection and start its handler.
C18_AcceptNotBlockedByHandlers ==
    Len(conns) < NumClients => ENABLED Accept

\* a connection of each implementation was accepted while the handler of the
\* connection before it was, and still is, blocked in recv
C18_Witness ==
    /\ Len(conns) = 2
    /\ Blocked = {1, 2}
    /\ conns[1].listener.impl # conns[2].listener.impl

\* log entries i and j are events of one connection
SameConnection(i, j) ==
    /\ connection_log[i].port = connection_log[j].port
    /\ connection_log[i].protocol = connection_log[j].protocol
    /\ connection_log[i].client = connection_log[j].client

\* C19: every SENT_ECHO event of a TCP connection comes after a RECEIVED
\* event of the same connection with a length of at least 1; a connection
\* whose read returned no byte has a RECEIVED event of length 0, no SENT_ECHO
\* event, and nothing is sent to its peer.
C19_ReceivedBeforeSent ==
    /\ \A j \in 1..Len(connection_log) :
          connection_log[j].status = "SENT_ECHO" =>
              \E i \in 1..(j - 1) :
                  /\ SameConnection(i, j)
                  /\ connection_log[i].status = "RECEIVED"
                  /\ connection_log[i].data_len >= 1
    /\ \A i \in 1..Len(connection_log) :
          (connection_log[i].status = "RECEIVED" /\ connection_log[i].data_len = 0) =>
              /\ \A j \in 1..Len(connection_log) :
                    SameConnection(i, j) => connection_log[j].status # "SENT_ECHO"
              /\ \A c \in Accepted :
                    connection_log[i].client = Addr(c) => conns[c].out = <<>>
    /\ \A c \in Accepted :
          conns[c].pc = "log_sent" => conns[c].data # <<>>

\* one connection of a listener was answered and logged RECEIVED, SENT_ECHO;
\* another connection of the same listener read no byte and logged RECEIVED
\* with length 0 only
C19_Witness ==
    /\ Len(connection_log) = 3
    /\ connection_log[1].status = "RECEIVED" /\ connection_log[1].data_len = 3
    /\ connection_log[2].status = "RECEIVED" /\ connection_log[2].data_len = 0
    /\ connection_log[3].status = "SENT_ECHO" /\ SameConnection(1, 3)
    /\ connection_log[1].port = connection_log[2].port
    /\ \A c \in Accepted : conns[c].pc = "done"

\* C20: for every non-empty request a fleet listener received, the response
\* sent is ECHO:<label>: followed by the request when the listener is not
\* DNS-labeled, and the DNS response built from the request when it is.
C20_ResponseByLabel ==
    \A c \in Accepted :
        (conns[c].listener.impl = "fleet" /\ conns[c].pc = "log_sent") =>
            conns[c].out =
                IF conns[c].listener.name = "DNS"
                THEN DnsResponse(conns[c].data)
                ELSE EchoTag \o Ascii(conns[c].listener.name) \o <<58>>
                         \o conns[c].data

(***************************************************************************)
(* SpecLoops: the loops of the listener threads of both servers, and what  *)
(* an exception of accept, recvfrom or sendto does to them.                *)
(***************************************************************************)
\* a TCP and a UDP listener of the fleet, and the three servers of
\* dns_test_server.py
LoopList ==
    << [impl |-> "fleet",   loop |-> "tcp_listener",    port |-> 53,   name |-> "DNS"],
       [impl |-> "fleet",   loop |-> "udp_listener",    port |-> 53,   name |-> "DNS"],
       [impl |-> "dnstest", loop |-> "tcp_echo_server", port |-> 5353, name |-> "TCP-ECHO"],
       [impl |-> "dnstest", loop |-> "dns_tcp_server",  port |-> 53,   name |-> "DNS-TCP"],
       [impl |-> "dnstest", loop |-> "dns_udp_server",  port |-> 53,   name |-> "DNS-UDP"] >>

LoopIds == 1..Len(LoopList)

TcpLoops == {l \in LoopIds : LoopList[l].loop \in
                {"tcp_listener", "tcp_echo_server", "dns_tcp_server"}}

\* connections or datagrams that arrive at one listener in a run
MaxRounds == 2

\* str(addr) of the sender of datagram number n
DgramAddr(n) == <<"('10.0.0.9'", ",", " " \o ToString(50000 + n) \o ")">>

\* the datagram number n carries
Dgram(n) == <<48 + n>>

\* a listener at the top of its loop
LoopTop(l) ==
    [pc |-> IF l \in TcpLoops THEN "accept" ELSE "recvfrom",
     round |-> 0, data |-> <<>>, served |-> 0, errors |-> 0, failed |-> {}]

InitLoops ==
    /\ loops = [l \in LoopIds |-> LoopTop(l)]
    /\ connection_log = <<>> /\ lock = 0 /\ conns = <<>> /\ st = StatsAsleep
    /\ DnsOff /\ CliOff /\ FleetOff /\ LogOff

\* a listener that is where the loop of l has position p, with a connection
\* or datagram left to arrive
At(l, p) == loops[l].pc = p /\ loops[l].round < MaxRounds

\* accept() returns and the handler thread is started
AcceptOk(l) ==
    /\ l \in TcpLoops
    /\ At(l, "accept")
    /\ loops' = [loops EXCEPT ![l].round = @ + 1, ![l].served = @ + 1]
    /\ UNCHANGED <<lsnVars, dnsVars, cliVars, fleetVars, logVars>>

\* accept() raises.  tcp_listener lines 48-49: printed, the loop continues;
\* tcp_echo_server and dns_tcp_server have no try in the loop: the exception
\* leaves the function and the thread ends
AcceptFails(l) ==
    /\ l \in TcpLoops
    /\ At(l, "accept")
    /\ loops' = [loops EXCEPT ![l].round = @ + 1, ![l].errors = @ + 1,
                              ![l].pc = IF LoopList[l].impl = "fleet"
                                        THEN "accept" ELSE "dead"]
    /\ UNCHANGED <<lsnVars, dnsVars, cliVars, fleetVars, logVars>>

\* recvfrom returns a datagram, which may be empty
RecvfromOk(l) ==
    /\ l \notin TcpLoops
    /\ At(l, "recvfrom")
    /\ \E data \in {Dgram(loops[l].round + 1), <<>>} :
         loops' = [loops EXCEPT ![l].round = @ + 1, ![l].data = data,
                                ![l].pc = IF LoopList[l].impl = "fleet"
                                          THEN "log_received" ELSE "sendto"]
    /\ UNCHANGED <<lsnVars, dnsVars, cliVars, fleetVars, logVars>>

\* recvfrom raises: udp_listener lines 98-99 and dns_udp_server lines 141-142
\* print the error, the loop continues
RecvfromFails(l) ==
    /\ l \notin TcpLoops
    /\ At(l, "recvfrom")
    /\ loops' = [loops EXCEPT ![l].round = @ + 1, ![l].errors = @ + 1]
    /\ UNCHANGED <<lsnVars, dnsVars, cliVars, fleetVars, logVars>>

\* log_connection(port, f"UDP-{protocol_name}", addr, ...) of udp_listener
LogDatagram(l, data_len, data_hex, status) ==
    /\ CanLog
    /\ connection_log' = Append(connection_log,
           Entry(Len(connection_log) + 1,
                 LoopList[l].port, "UDP-" \o LoopList[l].name,
                 DgramAddr(loops[l].round), data_len, data_hex, status))
    /\ UNCHANGED <<lock, conns, st>>

\* udp_listener lines 88-93: RECEIVED is logged, then `if data:`
UdpLogReceived(l) ==
    /\ loops[l].pc = "log_received"
    /\ LogDatagram(l, Len(loops[l].data), Hex(loops[l].data), "RECEIVED")
    /\ loops' = [loops EXCEPT ![l].pc = IF loops[l].data # <<>>
                                        THEN "sendto" ELSE "recvfrom",
                              ![l].served = IF loops[l].data # <<>>
                                            THEN @ ELSE @ + 1]
    /\ UNCHANGED <<dnsVars, cliVars, fleetVars, logVars>>

\* sock.sendto(response, addr) returns
SendtoOk(l) ==
    /\ loops[l].pc = "sendto"
    /\ loops' = [loops EXCEPT ![l].pc = IF LoopList[l].impl = "fleet"
                                        THEN "log_sent" ELSE "recvfrom",
                              ![l].served = IF LoopList[l].impl = "fleet"
                                            THEN @ ELSE @ + 1,
                              ![l].data = IF LoopList[l].impl = "fleet"
                                          THEN @ ELSE <<>>]
    /\ UNCHANGED <<lsnVars, dnsVars, cliVars, fleetVars, logVars>>

\* sock.sendto raises: udp_listener lines 98-99 and dns_udp_server lines
\* 141-142 print the error, nothing is logged, the loop continues
SendtoFails(l) ==
    /\ loops[l].pc = "sendto"
    /\ loops' = [loops EXCEPT ![l].pc = "recvfrom", ![l].data = <<>>,
                              ![l].errors = @ + 1,
                              ![l].failed = @ \cup {loops[l].round}]
    /\ UNCHANGED <<lsnVars, dnsVars, cliVars, fleetVars, logVars>>

\* udp_listener line 96: SENT_ECHO is logged with len(response)
UdpLogSent(l) ==
    /\ loops[l].pc = "log_sent"
    /\ LogDatagram(l, Len(EchoTag \o Ascii(LoopList[l].name) \o <<58>> \o loops[l].data),
                   <<>>, "SENT_ECHO")
    /\ loops' = [loops EXCEPT ![l].pc = "recvfrom", ![l].data = <<>>,
                              ![l].served = @ + 1]
    /\ UNCHANGED <<dnsVars, cliVars, fleetVars, logVars>>

NextLoops ==
    \/ \E l \in LoopIds : AcceptOk(l)
    \/ \E l \in LoopIds : AcceptFails(l)
    \/ \E l \in LoopIds : RecvfromOk(l)
    \/ \E l \in LoopIds : RecvfromFails(l)
    \/ \E l \in LoopIds : UdpLogReceived(l)
    \/ \E l \in LoopIds : SendtoOk(l)
    \/ \E l \in LoopIds : SendtoFails(l)
    \/ \E l \in LoopIds : UdpLogSent(l)

SpecLoops == InitLoops /\ [][NextLoops]_vars

(***************************************************************************)
(* Claims about the listener loops, checked under SpecLoops.               *)
(***************************************************************************)
\* the statuses of ERROR events
ErrorEvents == {"ERROR:reset", "ERROR:[Errno 101] Network is unreachable"}

\* C21: for every datagram a UDP listener of the fleet received and whose
\* handling then failed with an I/O error, the log holds an ERROR event of
\* that datagram.
C21_UdpErrorLogged ==
    \A l \in LoopIds :
        (LoopList[l].loop = "udp_listener") =>
            \A n \in loops[l].failed :
                \E i \in 1..Len(connection_log) :
                    /\ connection_log[i].client = DgramAddr(n)
                    /\ connection_log[i].status \in ErrorEvents

\* C29: no listener loop has ended: after a failure of accept() on a TCP
\* listener, or of recvfrom() or sendto() on a UDP listener, the listener is
\* back in its loop for the next connection or datagram, in the fleet and in
\* the DNS test server.
C29_LoopSurvivesErrors ==
    \A l \in LoopIds :
        /\ loops[l].pc # "dead"
        /\ loops[l].errors > 0 =>
              loops[l].pc \in {"accept", "recvfrom", "log_received", "sendto", "log_sent"}

(***************************************************************************)
(* SpecLog: the threads that use the log lock of multiport_analyzer.py,    *)
(* with `with lock:` in steps: handle_tcp threads in log_connection,       *)
(* dump_stats, and the shutdown export of __main__.                        *)
(***************************************************************************)
\* handle_tcp threads in one run
MaxHandlers == 2

HandlerIds == 1..Len(handlers)

\* the main thread as lock holder
MainThread == -2

\* the listener of handler h: the TCP entries of `ports`, in turn
IsTcp(p) == p.proto = "tcp"

ListenerOf(h) == SelectSeq(Ports, IsTcp)[h]

\* a payload one byte longer than the 64 bytes log_connection prints
LongPayload == [i \in 1..65 |-> 64 + (i % 26)]

\* the process is running: __main__ has not returned
Running == exp.pc \notin {"exited", "crashed"}

InitLog ==
    /\ handlers = <<>>
    /\ exp = NoExport
    /\ connection_log = <<>> /\ lock = 0 /\ conns = <<>> /\ st = StatsAsleep
    /\ DnsOff /\ CliOff /\ FleetOff /\ LoopsOff

\* tcp_listener line 47: a handler thread is started
HStart ==
    /\ Running
    /\ Len(handlers) < MaxHandlers
    /\ handlers' = Append(handlers, [pc |-> "recv", data |-> <<>>,
                                     status |-> "", lk |-> "none"])
    /\ UNCHANGED <<lsnVars, exp, dnsVars, cliVars, fleetVars, loopVars>>

\* handle_tcp lines 60-63 and 71-72: recv returns the payload the peer sent,
\* or times out on a silent peer; log_connection is called and requests the
\* lock
HRecv(h) ==
    /\ Running
    /\ handlers[h].pc = "recv"
    /\ \/ handlers' = [handlers EXCEPT ![h] = [pc |-> "log", data |-> LongPayload,
                                               status |-> "RECEIVED", lk |-> "want"]]
       \/ handlers' = [handlers EXCEPT ![h] = [pc |-> "log", data |-> <<>>,
                                               status |-> "TIMEOUT", lk |-> "want"]]
    /\ UNCHANGED <<lsnVars, exp, dnsVars, cliVars, fleetVars, loopVars>>

\* log_connection line 20: `with lock:` is entered
HAcquire(h) ==
    /\ Running
    /\ handlers[h].lk = "want"
    /\ lock = 0
    /\ lock' = h
    /\ handlers' = [handlers EXCEPT ![h].lk = "held"]
    /\ UNCHANGED <<connection_log, conns, st, exp, dnsVars, cliVars, fleetVars, loopVars>>

\* the data_len and data_hex arguments of the log_connection call of h
LoggedLen(h) ==
    CASE handlers[h].status = "RECEIVED"  -> Len(handlers[h].data)
      [] handlers[h].status = "SENT_ECHO" ->
             Len(EchoTag \o Ascii(ListenerOf(h).name) \o <<58>> \o handlers[h].data)
      [] OTHER -> 0

LoggedHex(h) ==
    IF handlers[h].status = "RECEIVED" THEN Hex(handlers[h].data) ELSE <<>>

\* log_connection with the new entry put in front of the list
HAppendInFront(h) ==
    /\ Running
    /\ handlers[h].lk = "held"
    /\ connection_log' = <<Entry(Len(connection_log) + 1,
                                 ListenerOf(h).port, "TCP-" \o ListenerOf(h).name,
                                 Addr(h), LoggedLen(h), LoggedHex(h),
                                 handlers[h].status)>> \o connection_log
    /\ handlers' = [handlers EXCEPT ![h].lk = "appended"]
    /\ UNCHANGED <<lock, conns, st, exp, dnsVars, cliVars, fleetVars, loopVars>>

\* log_connection with the lock given back before the entry is appended
HAppendUnlocked(h) ==
    /\ Running
    /\ handlers[h].lk = "held"
    /\ connection_log' = Append(connection_log,
           Entry(Len(connection_log) + 1,
                 ListenerOf(h).port, "TCP-" \o ListenerOf(h).name,
                 Addr(h), LoggedLen(h), LoggedHex(h), handlers[h].status))
    /\ handlers' = [handlers EXCEPT ![h].lk = "appended"]
    /\ lock' = 0
    /\ UNCHANGED <<conns, st, exp, dnsVars, cliVars, fleetVars, loopVars>>

\* log_connection lines 21-33: the entry is built, appended and printed
HAppend(h) ==
    /\ Running
    /\ handlers[h].lk = "held"
    /\ connection_log' = Append(connection_log,
           Entry(Len(connection_log) + 1,
                 ListenerOf(h).port, "TCP-" \o ListenerOf(h).name,
                 Addr(h), LoggedLen(h), LoggedHex(h), handlers[h].status))
    /\ handlers' = [handlers EXCEPT ![h].lk = "appended"]
    /\ UNCHANGED <<lock, conns, st, exp, dnsVars, cliVars, fleetVars, loopVars>>

\* the with block of log_connection is left; back in handle_tcp: after
\* RECEIVED with data the echo is sent and SENT_ECHO is logged (lines 66-69),
\* otherwise the connection is closed (lines 75-76)
HRelease(h) ==
    /\ Running
    /\ handlers[h].lk = "appended"
    /\ lock' = IF lock = h THEN 0 ELSE lock
    /\ handlers' =
          IF handlers[h].status = "RECEIVED" /\ handlers[h].data # <<>>
          THEN [handlers EXCEPT ![h].status = "SENT_ECHO", ![h].lk = "want"]
          ELSE [handlers EXCEPT ![h] = [pc |-> "done", data |-> <<>>,
                                        status |-> "", lk |-> "none"]]
    /\ UNCHANGED <<connection_log, conns, st, exp, dnsVars, cliVars, fleetVars, loopVars>>

\* dump_stats line 106: the sleep ends, `with lock:` is reached
StatsWake ==
    /\ Running
    /\ st.pc = "sleep"
    /\ st' = [st EXCEPT !.pc = "want"]
    /\ UNCHANGED <<connection_log, lock, conns, logVars, dnsVars, cliVars, fleetVars, loopVars>>

\* dump_stats lines 107-113: the lock is taken, the total printed, stats = {}
StatsAcquire ==
    /\ Running
    /\ st.pc = "want"
    /\ lock = 0
    /\ lock' = StatsThread
    /\ st' = [pc |-> "loop", i |-> 1, total |-> Len(connection_log), stats |-> <<>>]
    /\ UNCHANGED <<connection_log, conns, logVars, dnsVars, cliVars, fleetVars, loopVars>>

\* the loop and the end of the with block of dump_stats, while the process runs
StatsStepLog == Running /\ StatsStep

StatsEndLog == Running /\ StatsEnd

\* __main__ lines 170-174: KeyboardInterrupt ends the sleep loop; the export
\* requests the lock
Interrupt ==
    /\ exp.pc = "sleep"
    /\ exp' = [exp EXCEPT !.pc = "want"]
    /\ UNCHANGED <<lsnVars, handlers, dnsVars, cliVars, fleetVars, loopVars>>

\* __main__ line 174: `with lock:` is entered
ExportAcquire ==
    /\ exp.pc = "want"
    /\ lock = 0
    /\ lock' = MainThread
    /\ exp' = [exp EXCEPT !.pc = "open"]
    /\ UNCHANGED <<connection_log, conns, st, handlers, dnsVars, cliVars, fleetVars, loopVars>>

\* the text of a number as one piece
Num(n) == <<ToString(n)>>

HexChars == <<"0", "1", "2", "3", "4", "5", "6", "7", "8", "9",
              "a", "b", "c", "d", "e", "f">>

\* the hex string, one piece per character
HexText(data_hex) == [i \in 1..Len(data_hex) |-> HexChars[data_hex[i] + 1]]

\* the f-string of line 179 without its newline: the seven values with
\* commas between them
FormatLine(entry) ==
    Num(entry.timestamp) \o <<",">> \o Num(entry.port) \o <<",">>
        \o <<entry.protocol>> \o <<",">> \o entry.client \o <<",">>
        \o Num(entry.data_len) \o <<",">> \o HexText(entry.data_hex) \o <<",">>
        \o <<entry.status>>

\* the header line of line 177
HeaderLine ==
    <<"timestamp", ",", "port", ",", "protocol", ",", "client", ",",
      "data_len", ",", "data_hex", ",", "status">>

\* the file after the header and the lines of the first k entries
FileOf(k) == <<HeaderLine>> \o [i \in 1..k |-> FormatLine(connection_log[i])]

\* __main__ lines 175-177: the file is opened and the header written
ExportOpen ==
    /\ exp.pc = "open"
    /\ exp' = [pc |-> "write", file |-> FileOf(0)]
    /\ UNCHANGED <<lsnVars, handlers, dnsVars, cliVars, fleetVars, loopVars>>

\* open() raises (no such directory, no permission, disk full)
ExportOpenFails ==
    /\ exp.pc = "open"
    /\ exp' = [exp EXCEPT !.pc = "failed"]
    /\ UNCHANGED <<lsnVars, handlers, dnsVars, cliVars, fleetVars, loopVars>>

\* __main__ lines 178-179: one line per entry of connection_log
ExportWrite ==
    /\ exp.pc = "write"
    /\ exp' = [pc |-> "written", file |-> FileOf(Len(connection_log))]
    /\ UNCHANGED <<lsnVars, handlers, dnsVars, cliVars, fleetVars, loopVars>>

\* f.write raises after the lines of the first k entries
ExportWriteFails ==
    /\ exp.pc = "write"
    /\ \E k \in 0..Len(connection_log) :
         exp' = [pc |-> "failed", file |-> FileOf(k)]
    /\ UNCHANGED <<lsnVars, handlers, dnsVars, cliVars, fleetVars, loopVars>>

\* __main__ lines 181-182 and the end of the with block: the lock is given
\* back, __main__ returns and the process with its daemon threads ends
ExportRelease ==
    /\ exp.pc = "written"
    /\ lock' = 0
    /\ exp' = [exp EXCEPT !.pc = "exited"]
    /\ UNCHANGED <<connection_log, conns, st, handlers, dnsVars, cliVars, fleetVars, loopVars>>

\* the exception leaves the with block, which gives the lock back, and then
\* the except clause: the process ends with a traceback
ExportFailed ==
    /\ exp.pc = "failed"
    /\ lock' = 0
    /\ exp' = [exp EXCEPT !.pc = "crashed"]
    /\ UNCHANGED <<connection_log, conns, st, handlers, dnsVars, cliVars, fleetVars, loopVars>>

NextLog ==
    \/ HStart
    \/ \E h \in HandlerIds : HRecv(h)
    \/ \E h \in HandlerIds : HAcquire(h)
    \/ \E h \in HandlerIds : HAppend(h)
    \/ \E h \in HandlerIds : HRelease(h)
    \/ StatsWake
    \/ StatsAcquire
    \/ StatsStepLog
    \/ StatsEndLog
    \/ Interrupt
    \/ ExportAcquire
    \/ ExportOpen
    \/ ExportOpenFails
    \/ ExportWrite
    \/ ExportWriteFails
    \/ ExportRelease
    \/ ExportFailed

SpecLog == InitLog /\ [][NextLog]_vars

\* Scheduling of the lock users.  Each thread goes on with the step it is
\* at: recv of handle_tcp returns or times out (5 s), the sleep of dump_stats
\* ends (30 s), a thread inside the lock goes on; and a thread waiting for
\* the lock gets it if it is free again and again.  Handler threads are started by peers and KeyboardInterrupt comes
\* from the user: neither has to happen.
SpecLogLive ==
    /\ SpecLog
    /\ \A h \in 1..MaxHandlers :
          /\ WF_vars(h \in HandlerIds /\ (HRecv(h) \/ HAppend(h) \/ HRelease(h)))
          /\ SF_vars(h \in HandlerIds /\ HAcquire(h))
    /\ WF_vars(StatsWake \/ StatsStepLog \/ StatsEndLog)
    /\ SF_vars(StatsAcquire)
    /\ WF_vars(ExportOpen \/ ExportOpenFails \/ ExportWrite \/ ExportWriteFails
                   \/ ExportRelease \/ ExportFailed)
    /\ SF_vars(ExportAcquire)

\* the log after a step is the log before it, or that log with one entry
\* added at its end
Extended ==
    \/ connection_log' = connection_log
    \/ /\ Len(connection_log') = Len(connection_log) + 1
       /\ SubSeq(connection_log', 1, Len(connection_log)) = connection_log

\* dump_stats or the export is at work, or the export has ended
Reading ==
    \/ lock \in {StatsThread, MainThread}
    \/ exp.pc \in {"exited", "crashed"}

\* C22: the connection log is append-only: every step leaves it as it is or
\* adds exactly one entry at its end and changes no earlier entry, and while
\* dump_stats aggregates, while the shutdown export writes, and after the
\* export has ended, with or without a failure, the log does not change.
C22_AppendOnly ==
    [][/\ Extended
       /\ Reading => connection_log' = connection_log]_vars

\* the export failed after handlers had logged, and the log is still there
C22_Witness ==
    /\ exp.pc = "crashed"
    /\ Len(connection_log) >= 3
    /\ \E i \in 1..Len(connection_log) : connection_log[i].status = "SENT_ECHO"

\* the pieces of an exported line besides its hex characters
LineOverhead ==
    Len(FormatLine(Entry(1, 53, "TCP-DNS", Addr(1), 0, <<>>, "TIMEOUT")))

\* C23: every entry of the log and every exported line carries at most 128
\* hex characters, the first 64 bytes of the received payload.
C23_HexAtMost128 ==
    /\ \A i \in 1..Len(connection_log) : Len(connection_log[i].data_hex) <= 128
    /\ \A i \in 2..Len(exp.file) : Len(exp.file[i]) <= LineOverhead + 128

\* text.split(sep): the pieces of text between the separators
RECURSIVE SplitOn(_, _)
SplitOn(text, sep) ==
    IF \A i \in 1..Len(text) : text[i] # sep
    THEN <<text>>
    ELSE LET k == CHOOSE i \in 1..Len(text) :
                      text[i] = sep /\ \A j \in 1..(i - 1) : text[j] # sep
         IN  <<SubSeq(text, 1, k - 1)>> \o SplitOn(SubSeq(text, k + 1, Len(text)), sep)

\* the seven field values of an entry, as texts
FieldsOf(entry) ==
    <<Num(entry.timestamp), Num(entry.port), <<entry.protocol>>, entry.client,
      Num(entry.data_len), HexText(entry.data_hex), <<entry.status>>>>

\* C24: a finished export holds one line per entry of the log, in log order,
\* after the header, and splitting a line on the comma gives exactly the
\* seven field values of its entry: timestamp, port, protocol, client,
\* data_len, data_hex, status.
C24_ExportRoundTrip ==
    exp.pc \in {"written", "exited"} =>
        /\ Len(exp.file) = 1 + Len(connection_log)
        /\ \A i \in 1..Len(connection_log) :
              SplitOn(exp.file[i + 1], ",") = FieldsOf(connection_log[i])

\* the threads inside `with lock:`
Inside ==
    {h \in HandlerIds : handlers[h].lk \in {"held", "appended"}}
        \cup (IF st.pc = "loop" THEN {StatsThread} ELSE {})
        \cup (IF exp.pc \in {"open", "write", "written", "failed"}
              THEN {MainThread} ELSE {})

\* at most one thread is inside the lock, and it is the holder; the lock is
\* free when no thread is inside, so every path out of the block released it
LockDiscipline ==
    /\ Cardinality(Inside) <= 1
    /\ \A t \in Inside : lock = t
    /\ Inside = {} => lock = 0

\* an entry is appended by the handler that holds the lock, and dump_stats and
\* the export read the log while they hold it
LockedAccess ==
    /\ connection_log' # connection_log =>
          /\ lock \in HandlerIds
          /\ connection_log'[Len(connection_log')].client = Addr(lock)
    /\ (st' # st /\ st'.pc = "loop" /\ st.pc = "loop") => lock = StatsThread
    /\ exp'.file # exp.file => lock = MainThread

\* a thread waits for the lock
Wants(t) ==
    IF t = StatsThread THEN st.pc = "want"
    ELSE IF t = MainThread THEN exp.pc = "want"
    ELSE t \in HandlerIds /\ handlers[t].lk = "want"

\* a thread is inside the lock
Holds(t) == t \in Inside

LockUsers == (1..MaxHandlers) \cup {StatsThread, MainThread}

\* C28 as stated: appends and reads happen under the lock, at most one
\* thread is inside it, it is released on every path, and every thread that
\* requests the lock eventually acquires it.
C28_LockAlwaysAcquired ==
    /\ []LockDiscipline
    /\ [][LockedAccess]_vars
    /\ \A t \in LockUsers : Wants(t) ~> Holds(t)

\* C28: appends and reads happen under the lock, at most one thread is inside
\* it, it is released on every path, and every thread that requests the lock
\* eventually acquires it, unless the process ends first: a handler or
\* dump_stats still waiting when the shutdown export is over ends with it.
C28_LockDisciplineAndProgress ==
    /\ []LockDiscipline
    /\ [][LockedAccess]_vars
    /\ \A t \in LockUsers : Wants(t) ~> (Holds(t) \/ ~Running)

\* a handler and the export wait while dump_stats is inside the lock
C28_Witness ==
    /\ lock = StatsThread
    /\ exp.pc = "want"
    /\ \E h \in HandlerIds : handlers[h].lk = "want"

\* a domain no query can be built for: empty, or with a label that is empty
\* or longer than 63 bytes
InvalidDomain(domain) ==
    \/ domain = <<>>
    \/ \E i \in 1..Len(Split(domain)) :
          \/ Split(domain)[i] = <<>>
          \/ Len(Utf8(Split(domain)[i])) > 63

\* C25: make_dns_query rejects invalid domains: a peer that calls it with a
\* domain that is empty or has an empty label or a label longer than 63
\* bytes gets an error and no query bytes, so it has nothing to send.
C25_InvalidDomainRejected ==
    /\ (client.peer.kind = "dns_query" /\ InvalidDomain(client.peer.domain))
           => PayloadOf(client.peer) = <<>>
    /\ (udp_client.kind = "dns_query" /\ InvalidDomain(udp_client.domain))
           => PayloadOf(udp_client) = <<>>

\* the length fields a TLS record carries: bytes 4-5 of the record header and
\* bytes 2-4 of the handshake header that follows it
RecordLength(record) == Unpack16(SubSeq(record, 4, 5))

HandshakeLength(record) == 65536 * record[7] + 256 * record[8] + record[9]

\* C26: in the ClientHello the client sends, the record length is the number
\* of bytes after the 5-byte record header and the handshake length is the
\* number of bytes after the 4-byte handshake header, and every TLS_HELLO
\* probe sends the same number of bytes.
C26_ClientHelloLengthsConsistent ==
    \A i \in 1..Len(tests) :
        Probes[i].type = "TLS_HELLO" =>
            /\ tests[i][2].sent_bytes - 5 = RecordLength(MakeHttpsClientHello)
            /\ tests[i][2].sent_bytes - 9 = HandshakeLength(MakeHttpsClientHello)
            /\ tests[i][2].sent_bytes = Len(MakeHttpsClientHello)

\* C27: a probe has status SUCCESS exactly when at least one response byte
\* was received: every SUCCESS result has recv_bytes >= 1, and a read that
\* returns no byte (the peer closed without sending, or sent an empty
\* datagram) is not a SUCCESS.
C27_SuccessMeansBytesReceived ==
    \A i \in 1..Len(tests) :
        tests[i][2].status = "SUCCESS" <=> tests[i][2].recv_bytes >= 1

====
